---- MODULE Spec2Model ----
(***************************************************************************)
(* A model of server.js (gyzb1/xx-etf-js): the provider client, the batch  *)
(* scheduler, the holdings resolver, the symbol conversion and the two     *)
(* backtest request handlers, and the computations on the data: factors,   *)
(* weights and net values.                                                 *)
(*                                                                         *)
(* The module holds several specifications over one set of variables; a    *)
(* specification leaves the variables of the other parts at their idle     *)
(* values.                                                                 *)
(*   SpecBatch     batchProcess over an abstract worker                    *)
(*   SpecCall      callTushareAPI against an arbitrary provider            *)
(*   SpecPortfolio getFundPortfolio over arbitrary holdings disclosures    *)
(*   SpecSymbol    the symbol -> ts_code conversion of /api/backtest-etf   *)
(*   SpecServer    one request to /api/backtest-etf or /api/backtest       *)
(*   SpecServerLive  SpecServer under fairness of the handler's steps      *)
(*   SpecFactors   the factor extraction of the factor worker              *)
(*   SpecWeights   calculateDualFactorWeights                              *)
(*   SpecNetValue  calculatePortfolioNetValue over positive closes         *)
(*   SpecDegenerate  the computations on degenerate data                   *)
(***************************************************************************)
EXTENDS Integers, Sequences, FiniteSets, TLC

VARIABLES
  \* ---- batchProcess (server.js 47-61) ----
  items,        \* the items argument
  batchSize,    \* the batchSize argument
  i,            \* the loop variable i (0-based offset of the current window)
  bpc,          \* position: "idle", "awaitAll", "delay", "returned", "threw"
  wstate,       \* per item (1-based): "idle", "running", "fulfilled", "rejected"
  wval,         \* per item: the value its worker's promise was fulfilled with
  doneOrder,    \* the items of the current window in the order they settled
  results,      \* the local array results
  wargs,        \* per item: the arguments (item, index) its worker was called with
  pauses,       \* number of delay(800) calls made by this run
  startPauses,  \* per item: the value of pauses when its worker was started
  \* ---- callTushareAPI (server.js 23-44) ----
  cpc,          \* position: "idle", "delay", "post", "returned", "threw"
  capi,         \* the apiName argument
  cwaited,      \* milliseconds this call has waited in delay() so far
  crequests,    \* axios.post requests this call has issued
  cresp,        \* what the request settled with
  cresult,      \* the value returned, or the message of the error thrown
  ccalls,       \* calls of callTushareAPI made so far
  ctotal,       \* axios.post requests issued so far, over all calls
  \* ---- getFundPortfolio (server.js 140-193) ----
  fpPc,         \* position: "idle", "called", "returned"
  fpResp,       \* what callTushareAPI('fund_portfolio') gives: a throw or data
  fpToday,      \* new Date() as YYYYMMDD
  fpOut,        \* the value returned
  \* ---- symbol conversion (server.js 477-509) ----
  symPc,        \* position: "idle", "given", "converted"
  symRaw,       \* the symbol, a sequence of characters
  symOut,       \* the ts_code the map callback returned for it
  \* ---- the request handlers (server.js 447-771, 774-913) ----
  hpc,          \* position of the handler, see the actions
  hkind,        \* "none", "etf" (/api/backtest-etf) or "custom" (/api/backtest)
  hcodes,       \* uniqueStockCodes (etf) or stockCodes (custom)
  calls,        \* per instrument: the api names of its provider calls in flight
  single,       \* the api names of the calls in flight that belong to no instrument
  got,          \* per instrument: what the getters of its factor worker returned
  stocksData,   \* stocksData
  stocksFactors,\* stocksFactors
  etfData,      \* etfData
  responses,    \* the responses sent through res, in order
  issued,       \* per api name: the provider calls issued so far
  failed,       \* the provider calls that failed: <<instrument or 0, api name>>
  \* ---- the computations on the data (server.js 281-444, 549-644) ----
  calcPc,       \* position: "idle", "given", "returned"
  calcIn,       \* the arguments of the function called
  calcOut       \* the value it returned

batchVars == <<items, batchSize, i, bpc, wstate, wval, wargs, doneOrder,
               results, pauses, startPauses>>

callVars == <<cpc, capi, cwaited, crequests, cresp, cresult, ccalls, ctotal>>

fpVars == <<fpPc, fpResp, fpToday, fpOut>>

symVars == <<symPc, symRaw, symOut>>

srvVars == <<hpc, hkind, hcodes, calls, single, got, stocksData, stocksFactors,
             etfData, responses, issued, failed>>

calcVars == <<calcPc, calcIn, calcOut>>

vars == <<batchVars, callVars, fpVars, symVars, srvVars, calcVars>>

----------------------------------------------------------------------------
(* Bounds of the model.                                                    *)

\* longest items list handed to batchProcess in SpecBatch
MaxItems == 4
\* largest batchSize handed to batchProcess in SpecBatch
MaxWindow == 3
\* calls of callTushareAPI followed in SpecCall
MaxCalls == 2
\* most rows of a holdings disclosure in SpecPortfolio
MaxRows == 3
\* longest symbol in SpecSymbol
MaxSymLen == 6
\* most instruments of a request in SpecServer
MaxStocks == 3
\* most provider calls that fail during a request in SpecServer
MaxFailures == 2
\* most factor records given to calculateDualFactorWeights in SpecWeights
MaxFactorRecords == 3
\* most instruments given to calculatePortfolioNetValue in SpecNetValue
MaxSeries == 2
\* most rows of a price series
MaxDays == 2
\* The batch sizes of /api/backtest-etf are 10 (prices) and 5 (factors):
\* two units and one unit of 5.  SpecServer keeps the two to one and scales
\* the unit, so that a request of MaxStocks instruments spans several windows.
WindowUnit == 1

----------------------------------------------------------------------------
(* Program constants.                                                      *)

\* await delay(100) before every request
DelayMs == 100

----------------------------------------------------------------------------
(* Helpers.                                                                *)

Min(a, b) == IF a <= b THEN a ELSE b

Max(a, b) == IF a >= b THEN a ELSE b

\* Math.ceil(a / b) for a >= 0, b >= 1
CeilDiv(a, b) == (a + b - 1) \div b

\* a value no worker produces
NoValue == <<>>

\* null, as returned by the getters
Null == [null |-> TRUE]

\* fields.indexOf(name): the 0-based position of name, -1 when it is absent
IndexOf(fields, name) ==
  IF \E k \in DOMAIN fields : fields[k] = name
  THEN (CHOOSE k \in DOMAIN fields :
          fields[k] = name /\ \A j \in DOMAIN fields : fields[j] = name => k <= j) - 1
  ELSE -1

\* row[idx] for an idx that is a position of the row
At(row, idx) == row[idx + 1]

SetMax(S) == CHOOSE x \in S : \A y \in S : y <= x

\* the elements of seq, as a set
Range(seq) == {seq[k] : k \in DOMAIN seq}

----------------------------------------------------------------------------
(* batchProcess(items, processor, batchSize)                               *)

\* items.slice(i, i + batchSize), as the 1-based positions of its elements
BatchSlice(its, start, size) == (start + 1) .. Min(start + size, Len(its))

\* The array Promise.all resolves to: one entry per promise of the batch, in
\* the order of the batch, whatever the order in which they settled.
BatchResultsByCompletion(its, start, size, vals, order) ==
  [k \in 1 .. Cardinality(BatchSlice(its, start, size)) |-> vals[order[k]]]

BatchResults(its, start, size, vals, order) ==
  [k \in 1 .. Cardinality(BatchSlice(its, start, size)) |-> vals[start + k]]

\* await Promise.all(...) resumes once every promise of the batch is fulfilled
AnySettled(its, start, size, st) ==
  \E k \in BatchSlice(its, start, size) : st[k] = "fulfilled"

AllSettled(its, start, size, st) ==
  \A k \in BatchSlice(its, start, size) : st[k] = "fulfilled"

\* the guard of the inter-batch delay: i + batchSize < items.length
MoreBatchesInclusive(its, start, size) == start + size <= Len(its)

MoreBatches(its, start, size) == start + size < Len(its)

\* processor(item, i + batchIndex) for the item at 1-based position k of
\* items, which is batch[k - 1 - i]
WorkerArgs(its, start, k) == <<its[k], start + (k - 1 - start)>>

\* batch.map((item, batchIndex) => processor(item, i + batchIndex)): every
\* worker of the window is started, synchronously, before anything settles.
StartWindow(start) ==
  /\ wargs' = [k \in DOMAIN wargs |->
                  IF k \in BatchSlice(items, start, batchSize)
                  THEN WorkerArgs(items, start, k) ELSE wargs[k]]
  /\ wstate' = [k \in DOMAIN wstate |->
                  IF k \in BatchSlice(items, start, batchSize)
                  THEN "running" ELSE wstate[k]]
  /\ startPauses' = [k \in DOMAIN startPauses |->
                  IF k \in BatchSlice(items, start, batchSize)
                  THEN pauses ELSE startPauses[k]]
  /\ doneOrder' = <<>>

\* The call (the first, or one after an earlier call returned): results = [],
\* i = 0; an empty list returns at once, otherwise the first window is
\* started and the function waits at Promise.all.
BatchCall(its, size) ==
  /\ bpc \in {"idle", "returned"}
  /\ items' = its
  /\ batchSize' = size
  /\ i' = 0
  /\ results' = <<>>
  /\ pauses' = 0
  /\ wval' = [k \in 1 .. Len(its) |-> NoValue]
  /\ doneOrder' = <<>>
  /\ IF Len(its) = 0
     THEN /\ bpc' = "returned"
          /\ wstate' = [k \in 1 .. Len(its) |-> "idle"]
          /\ wargs' = [k \in 1 .. Len(its) |-> NoValue]
          /\ startPauses' = [k \in 1 .. Len(its) |-> 0]
     ELSE /\ bpc' = "awaitAll"
          /\ wstate' = [k \in 1 .. Len(its) |->
                          IF k \in BatchSlice(its, 0, size)
                          THEN "running" ELSE "idle"]
          /\ wargs' = [k \in 1 .. Len(its) |->
                          IF k \in BatchSlice(its, 0, size)
                          THEN WorkerArgs(its, 0, k) ELSE NoValue]
          /\ startPauses' = [k \in 1 .. Len(its) |-> 0]

\* The promise of worker k is fulfilled with value v.  A worker that was
\* started keeps running when Promise.all has already rejected.
WorkerFulfilled(k, v) ==
  /\ wstate[k] = "running"
  /\ wstate' = [wstate EXCEPT ![k] = "fulfilled"]
  /\ wval' = [wval EXCEPT ![k] = v]
  /\ doneOrder' = Append(doneOrder, k)
  /\ UNCHANGED <<items, batchSize, i, bpc, wargs, results, pauses,
                 startPauses>>

\* The promise of worker k is rejected: Promise.all rejects with it, the
\* await throws and batchProcess is left.
WorkerRejected(k) ==
  /\ wstate[k] = "running"
  /\ wstate' = [wstate EXCEPT ![k] = "rejected"]
  /\ bpc' = IF bpc = "awaitAll" THEN "threw" ELSE bpc
  /\ UNCHANGED <<items, batchSize, i, wval, wargs, doneOrder, results,
                 pauses, startPauses>>

\* Promise.all is fulfilled: results.push(...batchResults); then either the
\* delay is started or the loop goes on (and, here, ends: i + batchSize >=
\* items.length).
WindowDone ==
  /\ bpc = "awaitAll"
  /\ AllSettled(items, i, batchSize, wstate)
  /\ results' = results \o BatchResults(items, i, batchSize, wval, doneOrder)
  /\ IF MoreBatches(items, i, batchSize)
     THEN /\ bpc' = "delay"
          /\ pauses' = pauses + 1
          /\ i' = i
     ELSE /\ bpc' = "returned"
          /\ pauses' = pauses
          /\ i' = i + batchSize
  /\ UNCHANGED <<items, batchSize, wstate, wval, wargs, doneOrder,
                 startPauses>>

\* delay(800) is over: i += batchSize, and the next window is started.
DelayDone ==
  /\ bpc = "delay"
  /\ i' = i + batchSize
  /\ bpc' = "awaitAll"
  /\ StartWindow(i + batchSize)
  /\ UNCHANGED <<items, batchSize, wval, results, pauses>>

----------------------------------------------------------------------------
(* callTushareAPI(apiName, params)                                         *)

\* the api_name values server.js passes
ApiNames == {"daily", "fund_daily", "stock_basic", "stock_company",
             "daily_basic", "fund_portfolio", "fina_indicator",
             "balancesheet", "income", "dividend"}

\* response.data.code values: 0 is success
StatusCodes == {0, 2002, 40203}

\* response.data.msg values; "" stands for a missing or empty msg
StatusMessages == {"", "rate limit"}

\* response.data.data values, as far as callTushareAPI looks at them: not at all
DataValues == {"null", "no items", "table"}

NoResponse == [settled |-> FALSE]

Responses ==
  [settled : {TRUE}, ok : {TRUE}, code : StatusCodes, msg : StatusMessages,
   data : DataValues]

\* axios.post rejected: no connection, or an HTTP status outside 2xx
RequestFailed ==
  [settled |-> TRUE, ok |-> FALSE, code |-> 0, msg |-> "request failed",
   data |-> "null"]

\* new Error(response.data.msg || 'Tushare API error')
ErrorMessage(msg) == IF msg = "" THEN "Tushare API error" ELSE msg

\* catch (error) { console.error(...); throw error; }: the error leaves
\* callTushareAPI
OnErrorRetry == "delay"

OnError == "threw"

\* callTushareAPI is entered: the function runs up to await delay(100).
ClientCall(api) ==
  /\ cpc \in {"idle", "returned", "threw"}
  /\ ccalls < MaxCalls
  /\ cpc' = "delay"
  /\ capi' = api
  /\ cwaited' = 0
  /\ crequests' = 0
  /\ cresp' = NoResponse
  /\ cresult' = "none"
  /\ ccalls' = ccalls + 1
  /\ UNCHANGED ctotal

\* delay(100) is over: axios.post(TUSHARE_API, ...) is issued and awaited.
DelayElapsed ==
  /\ cpc = "delay"
  /\ cwaited' = cwaited + DelayMs
  /\ crequests' = crequests + 1
  /\ ctotal' = ctotal + 1
  /\ cpc' = "post"
  /\ UNCHANGED <<capi, cresp, cresult, ccalls>>

\* The request is answered: a non-zero code throws, which the catch logs and
\* throws on; code 0 returns response.data.data.
PostResolved(r) ==
  /\ cpc = "post"
  /\ cresp' = r
  /\ IF r.code # 0
     THEN /\ cpc' = OnError
          /\ cresult' = ErrorMessage(r.msg)
     ELSE /\ cpc' = "returned"
          /\ cresult' = r.data
  /\ UNCHANGED <<capi, cwaited, crequests, ccalls, ctotal>>

\* The request fails: the await throws, the catch logs and throws on.
PostRejected ==
  /\ cpc = "post"
  /\ cresp' = RequestFailed
  /\ cpc' = OnError
  /\ cresult' = RequestFailed.msg
  /\ UNCHANGED <<capi, cwaited, crequests, ccalls, ctotal>>

----------------------------------------------------------------------------
(* getFundPortfolio(tsCode, endDate)                                       *)
(*                                                                         *)
(* Dates are the provider's 8-digit YYYYMMDD strings, held as the numbers  *)
(* they spell: on such strings <=, localeCompare and endsWith('0630') are  *)
(* the numeric order and the remainder modulo 10000.                       *)

\* the callTushareAPI call threw
Threw == [threw |-> TRUE]

\* .sort((a, b) => b.localeCompare(a)) of a set of dates: descending
RECURSIVE SortedDesc(_)
SortedDesc(S) ==
  IF S = {} THEN <<>> ELSE <<SetMax(S)>> \o SortedDesc(S \ {SetMax(S)})

\* .filter(date => date <= today)
AnyDate(date, today) == TRUE

NotFuture(date, today) == date <= today

\* date.endsWith('0630') || date.endsWith('1231')
IsFullReport(date) == date % 10000 = 630 \/ date % 10000 = 1231

\* [...new Set(items.map(item => item[endDateIdx]))].filter(...).sort(...)
EndDates(its, endDateIdx, today) ==
  SortedDesc({d \in {At(its[k], endDateIdx) : k \in DOMAIN its} :
                NotFuture(d, today)})

\* endDates.filter(date => date.endsWith('0630') || date.endsWith('1231'))
FullReportDates(endDates) == SelectSeq(endDates, IsFullReport)

\* fullReportDates.length > 0 ? fullReportDates[0] : endDates[0]
LatestEndDate(endDates) ==
  IF Len(FullReportDates(endDates)) > 0
  THEN FullReportDates(endDates)[1] ELSE endDates[1]

\* data.items.filter(item => item[endDateIdx] === latestEndDate)
AllItems(its, endDateIdx, latest) == its

LatestItems(its, endDateIdx, latest) ==
  LET Keep(item) == At(item, endDateIdx) = latest IN SelectSeq(its, Keep)

\* the value getFundPortfolio returns for what callTushareAPI gave
GetFundPortfolio(resp, today) ==
  IF resp = Threw THEN Null
  ELSE IF resp = Null \/ "items" \notin DOMAIN resp THEN Null
  ELSE IF Len(resp.items) = 0 THEN Null
  ELSE LET endDateIdx == IndexOf(resp.fields, "end_date") IN
       IF endDateIdx < 0 THEN resp
       ELSE LET endDates == EndDates(resp.items, endDateIdx, today) IN
            IF Len(endDates) = 0 THEN Null
            ELSE [fields |-> resp.fields,
                  items |-> LatestItems(resp.items, endDateIdx,
                                        LatestEndDate(endDates))]

----------------------------------------------------------------------------
(* The symbol conversion of /api/backtest-etf.  A symbol is the sequence   *)
(* of its characters.                                                      *)

Digits == {"0", "1", "2", "3", "4", "5", "6", "7", "8", "9"}

DigitValue == [c \in Digits |->
  CASE c = "0" -> 0 [] c = "1" -> 1 [] c = "2" -> 2 [] c = "3" -> 3
    [] c = "4" -> 4 [] c = "5" -> 5 [] c = "6" -> 6 [] c = "7" -> 7
    [] c = "8" -> 8 [] c = "9" -> 9]

\* parseInt gives NaN where no digit leads; NaN fails every comparison, as
\* does this value in the comparisons of the conversion
NaN == -1

\* the length of the longest prefix of str made of digits
RECURSIVE DigitPrefixLen(_)
DigitPrefixLen(str) ==
  IF Len(str) = 0 \/ Head(str) \notin Digits THEN 0
  ELSE 1 + DigitPrefixLen(Tail(str))

RECURSIVE DecimalValue(_)
DecimalValue(digits) ==
  IF Len(digits) = 0 THEN 0
  ELSE 10 * DecimalValue(SubSeq(digits, 1, Len(digits) - 1))
       + DigitValue[digits[Len(digits)]]

\* parseInt(symbol) for a symbol without blanks, sign or 0x prefix: the
\* value of its leading digits
ParseInt(str) ==
  IF DigitPrefixLen(str) = 0 THEN NaN
  ELSE DecimalValue(SubSeq(str, 1, DigitPrefixLen(str)))

\* str.padStart(n, '0')
PadStart(str, n) ==
  IF Len(str) >= n THEN str ELSE [k \in 1 .. (n - Len(str)) |-> "0"] \o str

SH == <<".", "S", "H">>

SZ == <<".", "S", "Z">>

\* symbol.includes('.')
IncludesDot(str) == "." \in Range(str)

\* the conversion with its second Shanghai branch (60xxxx, 68xxxx) left out
ConvertSymbolMainBoardOnly(symbol) ==
  IF IncludesDot(symbol) THEN symbol
  ELSE LET code == ParseInt(symbol) IN
       IF code >= 600000 /\ code <= 609999 THEN symbol \o SH
       ELSE IF code >= 0 /\ code <= 3999 THEN PadStart(symbol, 6) \o SZ
       ELSE IF code >= 300000 /\ code <= 309999 THEN symbol \o SZ
       ELSE IF code >= 2000 /\ code <= 2999 THEN PadStart(symbol, 6) \o SZ
       ELSE PadStart(symbol, 6) \o SZ

\* the callback of symbols.map(...)
ConvertSymbol(symbol) ==
  IF IncludesDot(symbol) THEN symbol
  ELSE LET code == ParseInt(symbol) IN
       IF code >= 600000 /\ code <= 609999 THEN symbol \o SH
       ELSE IF code >= 600000 /\ code <= 699999 THEN symbol \o SH
       ELSE IF code >= 0 /\ code <= 3999 THEN PadStart(symbol, 6) \o SZ
       ELSE IF code >= 300000 /\ code <= 309999 THEN symbol \o SZ
       ELSE IF code >= 2000 /\ code <= 2999 THEN PadStart(symbol, 6) \o SZ
       ELSE PadStart(symbol, 6) \o SZ

----------------------------------------------------------------------------
(* The getters and the workers of /api/backtest-etf.                       *)
(*                                                                         *)
(* A table of fundamentals holds its numbers as cells: <<>> is null (or a  *)
(* missing value), <<v>> the number v.                                     *)

NullCell == <<>>

\* the value of a cell in arithmetic: null counts as 0
Num(cell) == IF cell = NullCell THEN 0 ELSE cell[1]

\* the cell as a condition: null and 0 are falsy
Truthy(cell) == cell # NullCell /\ cell[1] # 0

\* data && data.items && data.items.length > 0
HasItems(data) ==
  /\ data # Null
  /\ "items" \in DOMAIN data
  /\ Len(data.items) > 0

\* items[0][fields.indexOf(name)] where the column exists, null otherwise
Cell(data, name) ==
  IF IndexOf(data.fields, name) >= 0
  THEN At(data.items[1], IndexOf(data.fields, name)) ELSE NullCell

\* getDailyBasic, getBalanceSheet, getIncomeStatement after the call: the
\* rows sorted by the date column, descending, and the first one kept
LatestOnly(data, dateName) ==
  IF HasItems(data)
  THEN LET dateIdx == IndexOf(data.fields, dateName)
           latest == CHOOSE r \in Range(data.items) :
                       \A q \in Range(data.items) :
                         Num(At(q, dateIdx)) <= Num(At(r, dateIdx))
       IN  [fields |-> data.fields, items |-> <<latest>>]
  ELSE data

\* the name of the date column each getter sorts by
DateColumn(api) == IF api = "daily_basic" THEN "trade_date" ELSE "end_date"

\* getDailyBasic / getIncomeStatement / getBalanceSheet: what the getter
\* returns when callTushareAPI gave resp; the catch turns a throw into null
GetterReturns(api, resp) ==
  IF resp = Threw THEN Null ELSE LatestOnly(resp, DateColumn(api))

\* dividendYield of the factor worker
DividendYieldOf(dailyBasicInfo) ==
  IF ~HasItems(dailyBasicInfo) THEN 0
  ELSE IF Truthy(Cell(dailyBasicInfo, "dv_ratio"))
       THEN Num(Cell(dailyBasicInfo, "dv_ratio"))
  ELSE IF Truthy(Cell(dailyBasicInfo, "dv_ttm"))
       THEN Num(Cell(dailyBasicInfo, "dv_ttm"))
  ELSE 0

\* marketCap of the factor worker
MarketCapOf(dailyBasicInfo) ==
  IF HasItems(dailyBasicInfo) /\ Truthy(Cell(dailyBasicInfo, "total_mv"))
  THEN Cell(dailyBasicInfo, "total_mv") ELSE NullCell

\* ebit of the factor worker: ebit, else operate_profit, else total_profit
EbitOf(incomeData) ==
  IF ~HasItems(incomeData) THEN NullCell
  ELSE IF Truthy(Cell(incomeData, "ebit")) THEN Cell(incomeData, "ebit")
  ELSE IF Truthy(Cell(incomeData, "operate_profit"))
       THEN Cell(incomeData, "operate_profit")
  ELSE IF Truthy(Cell(incomeData, "total_profit"))
       THEN Cell(incomeData, "total_profit")
  ELSE NullCell

\* totalAssets of the factor worker
TotalAssetsOf(balanceData) ==
  IF HasItems(balanceData) THEN Cell(balanceData, "total_assets") ELSE NullCell

\* currentLiab of the factor worker: total_cur_liab, or total assets minus
\* total equity when that is null or 0 and the equity is not
CurrentLiabOf(balanceData) ==
  IF ~HasItems(balanceData) THEN NullCell
  ELSE IF /\ ~Truthy(Cell(balanceData, "total_cur_liab"))
          /\ IndexOf(balanceData.fields, "total_hldr_eqy_exc_min_int") >= 0
          /\ Truthy(Cell(balanceData, "total_hldr_eqy_exc_min_int"))
       THEN <<Num(Cell(balanceData, "total_assets"))
              - Num(Cell(balanceData, "total_hldr_eqy_exc_min_int"))>>
  ELSE Cell(balanceData, "total_cur_liab")

\* roce computed whenever the three values are there, whatever the capital
\* employed
RoceOfUnguarded(ebit, totalAssets, currentLiab) ==
  IF Truthy(ebit) /\ Truthy(totalAssets) /\ Truthy(currentLiab)
  THEN <<Num(ebit) * 100, Num(totalAssets) - Num(currentLiab)>>
  ELSE NullCell

\* roce of the factor worker: null (<<>>), or the fraction <<n, d>> standing
\* for (ebit / capitalEmployed) * 100 = n / d
RoceOf(ebit, totalAssets, currentLiab) ==
  IF /\ Truthy(ebit) /\ Truthy(totalAssets) /\ Truthy(currentLiab)
     /\ Num(totalAssets) - Num(currentLiab) > 0
  THEN <<Num(ebit) * 100, Num(totalAssets) - Num(currentLiab)>>
  ELSE NullCell

\* the try block of the factor worker, after its three getters returned
ExtractFactors(code, dailyBasicInfo, incomeData, balanceData) ==
  [code |-> code,
   dividendYield |-> DividendYieldOf(dailyBasicInfo),
   roce |-> RoceOf(EbitOf(incomeData), TotalAssetsOf(balanceData),
                   CurrentLiabOf(balanceData)),
   marketCap |-> MarketCapOf(dailyBasicInfo)]

\* the factor worker: its catch is reached when a getter throws
FactorWorkerReturns(code, dailyBasicInfo, incomeData, balanceData) ==
  IF Threw \in {dailyBasicInfo, incomeData, balanceData}
  THEN [code |-> code, dividendYield |-> 0, roce |-> NullCell,
        marketCap |-> NullCell]
  ELSE ExtractFactors(code, dailyBasicInfo, incomeData, balanceData)

\* try { ... } catch (error) { return {code, data: null, error} } of the
\* price workers: the error of getDailyData does not leave the worker
PriceWorkerLetsThrow == FALSE

PriceWorkerCatches == TRUE

\* what a price worker returns when callTushareAPI gave resp
PriceWorkerReturns(code, resp) ==
  IF resp = Threw
  THEN [code |-> code, data |-> Null, error |-> TRUE]
  ELSE [code |-> code, data |-> resp, error |-> FALSE]

\* the provider calls a worker of each stage has in flight once started
PriceCalls == {"daily"}

FactorCalls == {"daily_basic", "income", "balancesheet"}

EtfInfoCalls == {"stock_basic", "stock_company"}

CustomInfoCalls == {"stock_basic", "stock_company", "daily_basic"}

\* batchProcess(uniqueStockCodes, ..., 10) and (..., 5): the two window sizes,
\* in their proportion; the source has WindowUnit = 5
PriceBatchSize == 2 * WindowUnit

FactorBatchSize == WindowUnit

----------------------------------------------------------------------------
(* The provider's answers in SpecServer: one fixed table per api name and  *)
(* instrument; what varies is which calls fail.                            *)

DigitChar == [d \in 0 .. 9 |-> CHOOSE c \in Digits : DigitValue[c] = d]

\* the decimal digits of n >= 0
RECURSIVE ToDigits(_)
ToDigits(n) ==
  IF n < 10 THEN <<DigitChar[n]>>
  ELSE ToDigits(n \div 10) \o <<DigitChar[n % 10]>>

\* the symbol of the j-th holding: a Shanghai one, a short Shenzhen one that
\* needs padding, a ChiNext one, and so on
HoldingSymbol(j) ==
  ToDigits(CASE j % 3 = 1 -> 600000 + j
             [] j % 3 = 2 -> j
             [] OTHER -> 300000 + j)

\* fund_portfolio data with k holdings in the period 20231231, which also
\* holds a row without symbol and (k > 0) the first holding again, as a
\* ts_code; one row belongs to the period 20230930
HoldingsOf(k) ==
  [fields |-> <<"end_date", "symbol">>,
   items |-> <<<<20230930, HoldingSymbol(1)>>>>
             \o [j \in 1 .. k |-> <<20231231, HoldingSymbol(j)>>]
             \o <<<<20231231, <<>>>>>>
             \o (IF k > 0 THEN <<<<20231231, ConvertSymbol(HoldingSymbol(1))>>>>
                 ELSE <<>>)]

HoldingsResponses ==
  {Threw, Null, [fields |-> <<"end_date", "symbol">>, items |-> <<>>]}
    \cup {HoldingsOf(k) : k \in 0 .. MaxStocks}

HandlerTodays == {20230701, 20240401}

\* daily and fund_daily data
DailyDataOf(k) ==
  [fields |-> <<"trade_date", "close">>,
   items |-> <<<<<<20240102>>, <<10 + k>>>>, <<<<20240103>>, <<11 + k>>>>>>]

FundDailyData ==
  [fields |-> <<"trade_date", "close">>,
   items |-> <<<<<<20240102>>, <<1>>>>, <<<<20240103>>, <<2>>>>>>]

\* daily_basic data: two days, the later one second
DailyBasicOf(k) ==
  [fields |-> <<"trade_date", "dv_ratio", "dv_ttm", "total_mv">>,
   items |->
     CASE k % 3 = 1 -> <<<<<<20240102>>, <<1>>, <<1>>, <<40000>>>>,
                         <<<<20240103>>, <<3>>, <<4>>, <<50000>>>>>>
       [] k % 3 = 2 -> <<<<<<20240102>>, <<5>>, <<5>>, <<70000>>>>,
                         <<<<20240103>>, NullCell, <<2>>, NullCell>>>>
       [] OTHER     -> <<<<<<20240102>>, <<6>>, <<6>>, <<90000>>>>,
                         <<<<20240103>>, <<0>>, <<0>>, <<80000>>>>>>]

\* income data: an industrial firm, a bank (no ebit), a firm without profit
IncomeOf(k) ==
  [fields |-> <<"end_date", "ebit", "operate_profit", "total_profit">>,
   items |->
     CASE k % 3 = 1 -> <<<<<<20230930>>, <<100>>, <<90>>, <<80>>>>>>
       [] k % 3 = 2 -> <<<<<<20230930>>, NullCell, <<50>>, <<40>>>>>>
       [] OTHER     -> <<<<<<20230930>>, NullCell, NullCell, <<0>>>>>>]

\* balancesheet data: the bank has no current liabilities
BalanceOf(k) ==
  [fields |-> <<"end_date", "total_assets", "total_cur_liab",
                "total_hldr_eqy_exc_min_int">>,
   items |->
     CASE k % 3 = 1 -> <<<<<<20230930>>, <<1000>>, <<200>>, <<600>>>>>>
       [] k % 3 = 2 -> <<<<<<20230930>>, <<2000>>, NullCell, <<400>>>>>>
       [] OTHER     -> <<<<<<20230930>>, <<500>>, <<100>>, <<300>>>>>>]

\* response.data.data of a successful call for instrument k
ProviderData(api, k) ==
  CASE api = "daily" -> DailyDataOf(k)
    [] api = "daily_basic" -> DailyBasicOf(k)
    [] api = "income" -> IncomeOf(k)
    [] api = "balancesheet" -> BalanceOf(k)
    [] OTHER -> FundDailyData

\* req.body.stockCodes of /api/backtest
NoStockCodes == [present |-> FALSE, isArray |-> FALSE, list |-> <<>>]

CustomStockCodes ==
  {NoStockCodes, [present |-> TRUE, isArray |-> FALSE, list |-> <<>>]}
    \cup {[present |-> TRUE, isArray |-> TRUE,
           list |-> [j \in 1 .. k |-> ConvertSymbol(HoldingSymbol(j))]] :
            k \in 0 .. MaxStocks}

----------------------------------------------------------------------------
(* The request handlers.                                                   *)

\* a getter that has not returned yet
Pending == [pending |-> TRUE]

RECURSIVE SumCard(_)
SumCard(seq) ==
  IF Len(seq) = 0 THEN 0 ELSE Cardinality(Head(seq)) + SumCard(Tail(seq))

\* the provider calls in flight: entered callTushareAPI, not settled yet
InFlight == Cardinality(single) + SumCard(calls)

\* issued, after n more calls of each of the api names
Issue(apis, n) ==
  [a \in ApiNames |-> issued[a] + (IF a \in apis THEN n ELSE 0)]

\* how a provider call may settle
Outcomes == IF Cardinality(failed) < MaxFailures THEN {"ok", "fail"} ELSE {"ok"}

Settled(o, api, k) == IF o = "ok" THEN ProviderData(api, k) ELSE Threw

Failed(o, api, k) == IF o = "ok" THEN failed ELSE failed \cup {<<k, api>>}

\* !etfPortfolio || !etfPortfolio.items || etfPortfolio.items.length === 0
NoHoldings(etfPortfolio) == ~HasItems(etfPortfolio)

\* etfPortfolio.items.map(item => item[symbolIdx]).filter(s => s)
SymbolsOf(etfPortfolio) ==
  LET symbolIdx == IndexOf(etfPortfolio.fields, "symbol")
      NotEmpty(item) == At(item, symbolIdx) # <<>>
  IN  IF symbolIdx < 0 THEN <<>>
      ELSE LET kept == SelectSeq(etfPortfolio.items, NotEmpty)
           IN  [j \in DOMAIN kept |-> At(kept[j], symbolIdx)]

\* [...new Set(stockCodes)]: the first occurrence of each code, in order
RECURSIVE Unique(_)
Unique(seq) ==
  IF Len(seq) = 0 THEN <<>>
  ELSE LET front == Unique(SubSeq(seq, 1, Len(seq) - 1))
       IN  IF seq[Len(seq)] \in Range(front) THEN front
           ELSE Append(front, seq[Len(seq)])

\* stockCodes of /api/backtest-etf
StockCodesOf(etfPortfolio) ==
  LET symbols == SymbolsOf(etfPortfolio)
  IN  [j \in DOMAIN symbols |-> ConvertSymbol(symbols[j])]

\* !stockCodes || !Array.isArray(stockCodes) || stockCodes.length === 0
CodesMissingOnly(stockCodes) == ~stockCodes.present

CodesMissing(stockCodes) ==
  ~stockCodes.present \/ ~stockCodes.isArray \/ Len(stockCodes.list) = 0

\* a catch that logs the error and sends nothing
HandlerCatchSilent(sent) == sent

\* catch (error) { res.status(500).json({error, message: error.message}) }
HandlerCatch(sent) == Append(sent, 500)

\* POST /api/backtest-etf arrives: the handler runs up to the await of
\* getFundPortfolio, whose callTushareAPI call is now in flight.
EtfRequest ==
  /\ hpc = "idle"
  /\ hkind' = "etf"
  /\ hpc' = "portfolio"
  /\ fpToday' \in HandlerTodays
  /\ fpPc' = "called"
  /\ single' = {"fund_portfolio"}
  /\ issued' = Issue({"fund_portfolio"}, 1)
  /\ UNCHANGED <<hcodes, calls, got, stocksData, stocksFactors, etfData,
                 responses, failed, fpResp, fpOut, batchVars, callVars, symVars,
                 calcVars>>

\* getFundPortfolio returns.  Without holdings the handler answers 404 and
\* returns; otherwise it converts the symbols and enters the first
\* batchProcess, which starts the price workers of its first window.
EtfPortfolioSettles ==
  /\ hpc = "portfolio"
  /\ \E resp \in HoldingsResponses :
       /\ resp = Threw => "fail" \in Outcomes
       /\ fpResp' = resp
       /\ fpOut' = GetFundPortfolio(resp, fpToday)
       /\ failed' = IF resp = Threw THEN failed \cup {<<0, "fund_portfolio">>}
                    ELSE failed
  /\ fpPc' = "returned"
  /\ single' = {}
  /\ IF NoHoldings(fpOut')
     THEN /\ responses' = Append(responses, 404)
          /\ hpc' = "done"
          /\ UNCHANGED <<hcodes, calls, got, issued, batchVars>>
     ELSE LET codes == Unique(StockCodesOf(fpOut')) IN
          /\ hcodes' = codes
          /\ hpc' = "prices"
          /\ BatchCall(codes, PriceBatchSize)
          /\ calls' = [k \in DOMAIN codes |->
                         IF k \in BatchSlice(codes, 0, PriceBatchSize)
                         THEN PriceCalls ELSE {}]
          /\ got' = [k \in DOMAIN codes |-> [a \in FactorCalls |-> Pending]]
          /\ issued' = Issue(PriceCalls,
                             Cardinality(BatchSlice(codes, 0, PriceBatchSize)))
          /\ UNCHANGED responses
  /\ UNCHANGED <<hkind, stocksData, stocksFactors, etfData, fpToday, callVars,
                 symVars, calcVars>>

\* The getDailyData call of a price worker settles, and the worker returns
\* its result (or, were its catch missing, throws).
EtfPriceSettles ==
  /\ hkind = "etf"
  /\ \E k \in DOMAIN calls, o \in Outcomes :
       /\ "daily" \in calls[k]
       /\ calls' = [calls EXCEPT ![k] = {}]
       /\ failed' = Failed(o, "daily", k)
       /\ IF o = "fail" /\ ~PriceWorkerCatches
          THEN WorkerRejected(k)
          ELSE WorkerFulfilled(k, PriceWorkerReturns(wargs[k][1],
                                                     Settled(o, "daily", k)))
  /\ UNCHANGED <<hpc, hkind, hcodes, single, got, stocksData, stocksFactors,
                 etfData, responses, issued, fpVars, callVars, symVars,
                 calcVars>>

\* A getter of a factor worker returns; with the last of the three the worker
\* computes its result and returns it.
EtfFactorSettles ==
  /\ hkind = "etf"
  /\ \E k \in DOMAIN calls, api \in FactorCalls, o \in Outcomes :
       /\ api \in calls[k]
       /\ calls' = [calls EXCEPT ![k] = @ \ {api}]
       /\ failed' = Failed(o, api, k)
       /\ got' = [got EXCEPT ![k][api] = GetterReturns(api, Settled(o, api, k))]
       /\ IF calls'[k] = {}
          THEN WorkerFulfilled(k, FactorWorkerReturns(wargs[k][1],
                 got'[k]["daily_basic"], got'[k]["income"],
                 got'[k]["balancesheet"]))
          ELSE UNCHANGED batchVars
  /\ UNCHANGED <<hpc, hkind, hcodes, single, stocksData, stocksFactors,
                 etfData, responses, issued, fpVars, callVars, symVars,
                 calcVars>>

\* Promise.all of the window is fulfilled inside a batchProcess of the handler
SrvWindowDone ==
  /\ hpc \in {"prices", "factors"}
  /\ WindowDone
  /\ UNCHANGED <<srvVars, fpVars, callVars, symVars, calcVars>>

\* the delay between two windows is over: the workers of the next window are
\* started, each up to the await of its provider calls
SrvDelayDone ==
  /\ hpc \in {"prices", "factors"}
  /\ DelayDone
  /\ LET next == BatchSlice(items, i + batchSize, batchSize)
         apis == IF hpc = "prices" THEN PriceCalls ELSE FactorCalls
     IN  /\ calls' = [k \in DOMAIN calls |->
                        IF k \in next THEN apis ELSE calls[k]]
         /\ issued' = Issue(apis, Cardinality(next))
  /\ UNCHANGED <<hpc, hkind, hcodes, single, got, stocksData, stocksFactors,
                 etfData, responses, failed, fpVars, callVars, symVars,
                 calcVars>>

\* The first batchProcess is left.  If it returned, stocksData is its result
\* and the second batchProcess is entered, which starts the factor workers of
\* its first window; if it threw, the catch of the handler answers 500.
EtfPricesDone ==
  /\ hpc = "prices"
  /\ bpc \in {"returned", "threw"}
  /\ IF bpc = "threw"
     THEN /\ responses' = HandlerCatch(responses)
          /\ hpc' = "done"
          /\ UNCHANGED <<stocksData, calls, issued, batchVars>>
     ELSE /\ stocksData' = results
          /\ hpc' = "factors"
          /\ BatchCall(hcodes, FactorBatchSize)
          /\ calls' = [k \in DOMAIN calls |->
                         IF k \in BatchSlice(hcodes, 0, FactorBatchSize)
                         THEN FactorCalls ELSE calls[k]]
          /\ issued' = Issue(FactorCalls,
                             Cardinality(BatchSlice(hcodes, 0, FactorBatchSize)))
          /\ UNCHANGED responses
  /\ UNCHANGED <<hkind, hcodes, single, got, stocksFactors, etfData, failed,
                 fpVars, callVars, symVars, calcVars>>

\* The second batchProcess is left.  If it returned, stocksFactors is its
\* result and getFundDailyData is called and awaited.
EtfFactorsDone ==
  /\ hpc = "factors"
  /\ bpc \in {"returned", "threw"}
  /\ IF bpc = "threw"
     THEN /\ responses' = HandlerCatch(responses)
          /\ hpc' = "done"
          /\ UNCHANGED <<stocksFactors, single, issued>>
     ELSE /\ stocksFactors' = results
          /\ hpc' = "fund"
          /\ single' = {"fund_daily"}
          /\ issued' = Issue({"fund_daily"}, 1)
          /\ UNCHANGED responses
  /\ UNCHANGED <<hkind, hcodes, calls, got, stocksData, etfData, failed,
                 batchVars, fpVars, callVars, symVars, calcVars>>

\* getFundDailyData settles.  A throw reaches the catch of the handler, which
\* answers 500; otherwise the weights are computed and the info workers of
\* all instruments are started at once (uniqueStockCodes.map).
EtfFundSettles ==
  /\ hkind = "etf"
  /\ hpc = "fund"
  /\ \E o \in Outcomes :
       /\ failed' = Failed(o, "fund_daily", 0)
       /\ IF o = "fail"
          THEN /\ responses' = HandlerCatch(responses)
               /\ hpc' = "done"
               /\ UNCHANGED <<etfData, calls, issued>>
          ELSE /\ etfData' = Settled(o, "fund_daily", 0)
               /\ hpc' = "info"
               /\ calls' = [k \in DOMAIN calls |-> EtfInfoCalls]
               /\ issued' = Issue(EtfInfoCalls, Len(hcodes))
               /\ UNCHANGED responses
  /\ single' = {}
  /\ UNCHANGED <<hkind, hcodes, got, stocksData, stocksFactors, batchVars,
                 fpVars, callVars, symVars, calcVars>>

\* A getter of an info worker returns, with data or (its catch) with null:
\* either only changes the row displayed for the instrument, which is not
\* part of the state.  The pending calls of this stage are interchangeable,
\* so which of them returned is not recorded: the state keeps how many are
\* left, as the last ones of calls.
InfoSettles ==
  /\ hpc \in {"info", "cinfo"}
  /\ \E k \in DOMAIN calls :
       /\ calls[k] # {}
       /\ \A j \in 1 .. k - 1 : calls[j] = {}
       /\ calls' = [calls EXCEPT ![k] = @ \ {CHOOSE api \in calls[k] : TRUE}]
  /\ UNCHANGED <<hpc, hkind, hcodes, single, got, stocksData, stocksFactors,
                 etfData, responses, issued, failed, batchVars, fpVars,
                 callVars, symVars, calcVars>>

\* Promise.all(stockInfoPromises) is fulfilled: the net values are computed
\* and the success response is sent.
InfoDone ==
  /\ hpc \in {"info", "cinfo"}
  /\ InFlight = 0
  /\ responses' = Append(responses, 200)
  /\ hpc' = "done"
  /\ UNCHANGED <<hkind, hcodes, calls, single, got, stocksData, stocksFactors,
                 etfData, issued, failed, batchVars, fpVars, callVars, symVars,
                 calcVars>>

\* POST /api/backtest arrives.  Without stock codes the handler answers 400
\* and returns; otherwise getDailyData is called for every code and
\* getFundDailyData for the fund, all at once, and the handler awaits them.
CustomRequest ==
  /\ hpc = "idle"
  /\ hkind' = "custom"
  /\ \E stockCodes \in CustomStockCodes :
       IF CodesMissing(stockCodes)
       THEN /\ responses' = Append(responses, 400)
            /\ hpc' = "done"
            /\ UNCHANGED <<hcodes, calls, single, stocksData, issued>>
       ELSE /\ hcodes' = stockCodes.list
            /\ hpc' = "cdata"
            /\ calls' = [k \in DOMAIN stockCodes.list |-> PriceCalls]
            /\ single' = {"fund_daily"}
            /\ stocksData' = [k \in DOMAIN stockCodes.list |-> Pending]
            /\ issued' = [Issue(PriceCalls, Len(stockCodes.list))
                            EXCEPT !["fund_daily"] = @ + 1]
            /\ UNCHANGED responses
  /\ UNCHANGED <<got, stocksFactors, etfData, failed, batchVars, fpVars,
                 callVars, symVars, calcVars>>

\* The getDailyData call of a stock promise settles; the promise is
\* fulfilled with the result (or, were its catch missing, rejected, which
\* rejects Promise.all and reaches the catch of the handler).
CustomDataSettles ==
  /\ hkind = "custom"
  /\ \E k \in DOMAIN calls, o \in Outcomes :
       /\ "daily" \in calls[k]
       /\ calls' = [calls EXCEPT ![k] = {}]
       /\ failed' = Failed(o, "daily", k)
       /\ IF o = "fail" /\ ~PriceWorkerCatches
          THEN /\ UNCHANGED stocksData
               /\ hpc' = "done"
               /\ responses' = IF hpc = "cdata" THEN HandlerCatch(responses)
                               ELSE responses
          ELSE /\ stocksData' = [stocksData EXCEPT ![k] =
                    PriceWorkerReturns(hcodes[k], Settled(o, "daily", k))]
               /\ UNCHANGED <<hpc, responses>>
  /\ UNCHANGED <<hkind, hcodes, single, got, stocksFactors, etfData, issued,
                 batchVars, fpVars, callVars, symVars, calcVars>>

\* getFundDailyData (etfPromise) settles; a rejection rejects Promise.all and
\* reaches the catch of the handler, which answers 500 while the stock
\* promises may still be pending.
CustomFundSettles ==
  /\ hkind = "custom"
  /\ "fund_daily" \in single
  /\ \E o \in Outcomes :
       /\ failed' = Failed(o, "fund_daily", 0)
       /\ IF o = "fail"
          THEN /\ responses' = IF hpc = "cdata" THEN HandlerCatch(responses)
                               ELSE responses
               /\ hpc' = "done"
               /\ UNCHANGED etfData
          ELSE /\ etfData' = Settled(o, "fund_daily", 0)
               /\ UNCHANGED <<hpc, responses>>
  /\ single' = {}
  /\ UNCHANGED <<hkind, hcodes, calls, got, stocksData, stocksFactors, issued,
                 batchVars, fpVars, callVars, symVars, calcVars>>

\* Promise.all([Promise.all(stockPromises), etfPromise]) is fulfilled: the
\* info workers of all codes are started at once (stockCodes.map).
CustomDataDone ==
  /\ hpc = "cdata"
  /\ InFlight = 0
  /\ hpc' = "cinfo"
  /\ calls' = [k \in DOMAIN calls |-> CustomInfoCalls]
  /\ issued' = Issue(CustomInfoCalls, Len(hcodes))
  /\ UNCHANGED <<hkind, hcodes, single, got, stocksData, stocksFactors,
                 etfData, responses, failed, batchVars, fpVars, callVars,
                 symVars, calcVars>>

----------------------------------------------------------------------------
(* Numbers.  A JavaScript number is kept exactly, as the fraction <<n, d>> *)
(* in lowest terms with d > 0; <<1, 0>> and <<-1, 0>> are Infinity and     *)
(* -Infinity and <<0, 0>> is NaN, so that a division by zero gives what it *)
(* gives in the code.  Rounding is not modelled.                           *)

Abs(n) == IF n < 0 THEN -n ELSE n

Sign(n) == IF n > 0 THEN 1 ELSE IF n < 0 THEN -1 ELSE 0

RECURSIVE Gcd(_, _)
Gcd(a, b) == IF b = 0 THEN a ELSE Gcd(b, a % b)

\* the number n / d
Norm(n, d) ==
  IF d = 0 THEN <<Sign(n), 0>>
  ELSE LET g == Gcd(Abs(n), Abs(d))
       IN  <<(Sign(d) * n) \div g, Abs(d) \div g>>

Zero == Norm(0, 1)

One == Norm(1, 1)

NotANumber == Norm(0, 0)

Infinity == Norm(1, 0)

IsNaN(x) == x = NotANumber

IsFinite(x) == x[2] # 0

\* x + y
RAdd(x, y) ==
  IF IsNaN(x) \/ IsNaN(y) THEN NotANumber
  ELSE IF ~IsFinite(x) /\ ~IsFinite(y) THEN (IF x = y THEN x ELSE NotANumber)
  ELSE IF ~IsFinite(x) THEN x
  ELSE IF ~IsFinite(y) THEN y
  ELSE Norm(x[1] * y[2] + y[1] * x[2], x[2] * y[2])

\* x - y
RSub(x, y) == RAdd(x, <<-y[1], y[2]>>)

\* x * y
RMul(x, y) == Norm(x[1] * y[1], x[2] * y[2])

\* x / y: 1 / 0 is Infinity, 0 / 0 is NaN
RDiv(x, y) == RMul(x, Norm(y[2], y[1]))

\* x < y, false when one of them is NaN
RLess(x, y) ==
  IF IsNaN(x) \/ IsNaN(y) THEN FALSE
  ELSE IF x = y THEN FALSE
  ELSE IF x = <<-1, 0>> \/ y = Infinity THEN TRUE
  ELSE IF x = Infinity \/ y = <<-1, 0>> THEN FALSE
  ELSE x[1] * y[2] < y[1] * x[2]

\* the number as a condition: 0 and NaN are falsy
RTruthy(x) == ~IsNaN(x) /\ x # Zero

\* Math.min(...xs) and Math.max(...xs) of a non-empty list
RMin(xs) ==
  IF \E k \in DOMAIN xs : IsNaN(xs[k]) THEN NotANumber
  ELSE xs[CHOOSE k \in DOMAIN xs : \A j \in DOMAIN xs : ~RLess(xs[j], xs[k])]

RMax(xs) ==
  IF \E k \in DOMAIN xs : IsNaN(xs[k]) THEN NotANumber
  ELSE xs[CHOOSE k \in DOMAIN xs : \A j \in DOMAIN xs : ~RLess(xs[k], xs[j])]

\* xs.reduce((sum, x) => sum + x, 0)
RECURSIVE RSum(_)
RSum(xs) ==
  IF Len(xs) = 0 THEN Zero
  ELSE RAdd(RSum(SubSeq(xs, 1, Len(xs) - 1)), xs[Len(xs)])

\* the number held by a value of the data: null counts as 0, a cell <<v>>
\* as v, a fraction as itself
ToNumber(v) ==
  IF Len(v) = 0 THEN Zero ELSE IF Len(v) = 1 THEN Norm(v[1], 1)
  ELSE Norm(v[1], v[2])

----------------------------------------------------------------------------
(* calculateDualFactorWeights(stocksFactors)                               *)

\* s.roce !== null && !isNaN(s.roce)
ValidRoce(s) == s.roce # NullCell /\ ~IsNaN(ToNumber(s.roce))

\* 1 / n
UnitWeight(n) == One

UniformWeight(n) == RDiv(One, Norm(n, 1))

\* the dividend yield 0.01 that replaces 0
SmallYield == Norm(1, 100)

\* processedStocks: dividendYield || 0, and 0.01 instead of 0
ProcessedStock(s) ==
  LET given == Norm(s.dividendYield, 1)
      dividendYield == IF RTruthy(given) THEN given ELSE Zero
  IN  [code |-> s.code,
       dividendYield |-> IF dividendYield = Zero THEN SmallYield
                         ELSE dividendYield,
       roce |-> ToNumber(s.roce)]

\* maxDiv - minDiv || 1
RangeOf(xs) ==
  LET range == RSub(RMax(xs), RMin(xs))
  IN  IF RTruthy(range) THEN range ELSE One

\* the composite scores of the processed stocks
ScoresOf(processedStocks) ==
  LET divYields == [k \in DOMAIN processedStocks |->
                      processedStocks[k].dividendYield]
      roces == [k \in DOMAIN processedStocks |-> processedStocks[k].roce]
      minDiv == RMin(divYields)
      minRoce == RMin(roces)
      rangeDiv == RangeOf(divYields)
      rangeRoce == RangeOf(roces)
  IN  [k \in DOMAIN processedStocks |->
         LET normDiv == RDiv(RSub(divYields[k], minDiv), rangeDiv)
             normRoce == RDiv(RSub(roces[k], minRoce), rangeRoce)
         IN  RDiv(RAdd(normDiv, normRoce), Norm(2, 1))]

\* totalScore > 0
AlwaysPositive(totalScore) == TRUE

TotalScorePositive(totalScore) == RLess(Zero, totalScore)

\* the object weights built by assigning list[k].code the value vals[k], in
\* order: a later record of the same code overwrites an earlier one
WeightsObject(list, vals) ==
  [c \in {list[k].code : k \in DOMAIN list} |->
     vals[SetMax({k \in DOMAIN list : list[k].code = c})]]

\* the weights calculateDualFactorWeights returns
CalculateDualFactorWeights(factors) ==
  LET validStocks == SelectSeq(factors, ValidRoce) IN
  IF Len(validStocks) = 0
  THEN WeightsObject(factors,
                     [k \in DOMAIN factors |-> UniformWeight(Len(factors))])
  ELSE LET processedStocks == [k \in DOMAIN validStocks |->
                                 ProcessedStock(validStocks[k])]
           scores == ScoresOf(processedStocks)
           totalScore == RSum(scores)
       IN  WeightsObject(processedStocks,
             [k \in DOMAIN scores |->
                IF TotalScorePositive(totalScore)
                THEN RDiv(scores[k], totalScore)
                ELSE UniformWeight(Len(scores))])

----------------------------------------------------------------------------
(* calculatePortfolioNetValue(stocksData, weights) and                     *)
(* calculateETFNetValue(etfData)                                            *)

\* undefined: a value apart from null <<>>, the numbers <<v>> and the
\* fractions <<n, d>>
Undefined == <<0, 0, 0>>

\* item[idx]: undefined when the column does not exist

ItemValue(item, idx) == IF idx < 0 THEN Undefined ELSE At(item, idx)

\* the value in arithmetic: undefined is NaN, null is 0
Number(v) == IF v = Undefined THEN NotANumber ELSE ToNumber(v)

\* the value as a condition: undefined, null, 0 and NaN are falsy
ValueTruthy(v) == v # Undefined /\ v # NullCell /\ RTruthy(ToNumber(v))

\* the comparator (a, b) => a[dateIdx] - b[dateIdx] gives less than 0
DateBefore(a, b, dateIdx) ==
  RLess(RSub(Number(ItemValue(a, dateIdx)), Number(ItemValue(b, dateIdx))),
        Zero)

\* items as they are given
AsGiven(its, dateIdx) == its

\* items.sort((a, b) => a[dateIdx] - b[dateIdx]): ascending and stable
RECURSIVE SortedByDate(_, _)
SortedByDate(its, dateIdx) ==
  IF Len(its) = 0 THEN <<>>
  ELSE LET first == CHOOSE k \in DOMAIN its :
                      /\ \A j \in DOMAIN its :
                           ~DateBefore(its[j], its[k], dateIdx)
                      /\ \A j \in 1 .. k - 1 :
                           DateBefore(its[k], its[j], dateIdx)
           rest == [j \in 1 .. Len(its) - 1 |->
                      IF j < first THEN its[j] ELSE its[j + 1]]
       IN  <<its[first]>> \o SortedByDate(rest, dateIdx)

\* weights[stock.code] || 0
WeightOf(weights, code) ==
  IF code \in DOMAIN weights /\ RTruthy(weights[code]) THEN weights[code]
  ELSE Zero

\* the daily values one stock adds to dateMap, in the order it adds them
StockEntries(stock, weights) ==
  IF stock.data = Null \/ Len(stock.data.items) = 0 THEN <<>>
  ELSE LET dateIdx == IndexOf(stock.data.fields, "trade_date")
           closeIdx == IndexOf(stock.data.fields, "close")
           weight == WeightOf(weights, stock.code)
           sortedItems == SortedByDate(stock.data.items, dateIdx)
           initialPrice == Number(ItemValue(sortedItems[1], closeIdx))
       IN  IF weight = Zero THEN <<>>
           ELSE [j \in DOMAIN sortedItems |->
                   [date |-> ItemValue(sortedItems[j], dateIdx),
                    dailyValue |->
                      RMul(RDiv(Number(ItemValue(sortedItems[j], closeIdx)),
                                initialPrice),
                           weight)]]

\* the daily values of all stocks, in the order of stocksData.forEach
RECURSIVE AllEntries(_, _)
AllEntries(stocks, weights) ==
  IF Len(stocks) = 0 THEN <<>>
  ELSE AllEntries(SubSeq(stocks, 1, Len(stocks) - 1), weights)
         \o StockEntries(stocks[Len(stocks)], weights)

\* dateMap.get(date).sum after all stocks
DaySum(entries, date) ==
  LET OfDate(e) == e.date = date
      day == SelectSeq(entries, OfDate)
  IN  RSum([j \in DOMAIN day |-> day[j].dailyValue])

\* the dates of a set, ascending: .sort((a, b) => a.date.localeCompare(b.date))
RECURSIVE DatesAscending(_)
DatesAscending(dates) ==
  IF dates = {} THEN <<>>
  ELSE LET first == CHOOSE d \in dates : \A e \in dates : d[1] <= e[1]
       IN  <<first>> \o DatesAscending(dates \ {first})

\* if (initialValue > 0) item.netValue = item.netValue / initialValue
Normalized(netValueData) ==
  IF Len(netValueData) > 0 /\ RLess(Zero, netValueData[1].netValue)
  THEN [j \in DOMAIN netValueData |->
          [date |-> netValueData[j].date,
           netValue |-> RDiv(netValueData[j].netValue,
                             netValueData[1].netValue)]]
  ELSE netValueData

\* the series calculatePortfolioNetValue returns
CalculatePortfolioNetValue(stocks, weights) ==
  LET entries == AllEntries(stocks, weights)
      dates == DatesAscending({entries[j].date : j \in DOMAIN entries})
  IN  Normalized([j \in DOMAIN dates |->
                    [date |-> dates[j],
                     netValue |-> DaySum(entries, dates[j])]])

\* a || b
OrElse(a, b) == IF ValueTruthy(a) THEN a ELSE b

\* the series calculateETFNetValue returns
CalculateETFNetValue(data) ==
  IF ~HasItems(data) THEN <<>>
  ELSE LET dateIdx == IndexOf(data.fields, "trade_date")
           navIdx == IndexOf(data.fields, "nav")
           closeIdx == IndexOf(data.fields, "close")
           sortedItems == SortedByDate(data.items, dateIdx)
           initialValue ==
             Number(OrElse(OrElse(ItemValue(sortedItems[1], navIdx),
                                  ItemValue(sortedItems[1], closeIdx)),
                           <<1>>))
       IN  [j \in DOMAIN sortedItems |->
              [date |-> ItemValue(sortedItems[j], dateIdx),
               netValue |->
                 RDiv(Number(OrElse(ItemValue(sortedItems[j], navIdx),
                                    ItemValue(sortedItems[j], closeIdx))),
                      initialValue)]]

----------------------------------------------------------------------------
(* The state before anything is called: every specification starts here   *)
(* and draws its inputs in its first action.                               *)

Init ==
  \* batchProcess
  /\ items = <<>>
  /\ batchSize = 0
  /\ i = 0
  /\ bpc = "idle"
  /\ wstate = <<>>
  /\ wval = <<>>
  /\ wargs = <<>>
  /\ doneOrder = <<>>
  /\ results = <<>>
  /\ pauses = 0
  /\ startPauses = <<>>
  \* callTushareAPI
  /\ cpc = "idle"
  /\ capi = "none"
  /\ cwaited = 0
  /\ crequests = 0
  /\ cresp = NoResponse
  /\ cresult = "none"
  /\ ccalls = 0
  /\ ctotal = 0
  \* getFundPortfolio
  /\ fpPc = "idle"
  /\ fpResp = Null
  /\ fpToday = 0
  /\ fpOut = Null
  \* symbol conversion
  /\ symPc = "idle"
  /\ symRaw = <<>>
  /\ symOut = <<>>
  \* request handlers
  /\ hpc = "idle"
  /\ hkind = "none"
  /\ hcodes = <<>>
  /\ calls = <<>>
  /\ single = {}
  /\ got = <<>>
  /\ stocksData = <<>>
  /\ stocksFactors = <<>>
  /\ etfData = Null
  /\ responses = <<>>
  /\ issued = [a \in ApiNames |-> 0]
  /\ failed = {}
  \* computations
  /\ calcPc = "idle"
  /\ calcIn = Null
  /\ calcOut = Null

----------------------------------------------------------------------------
(* SpecBatch: batchProcess called once, with any list of up to MaxItems    *)
(* items, any batchSize in 1..MaxWindow and a worker that may fulfil or    *)
(* reject, in any order.                                                   *)

ItemPool == {"a", "b"}

ItemLists == UNION {[1 .. n -> ItemPool] : n \in 0 .. MaxItems}

\* what processor(item, index) is fulfilled with in SpecBatch
WorkerValue(item, index) == <<item, index>>

BCall ==
  /\ \E its \in ItemLists, size \in 1 .. MaxWindow : BatchCall(its, size)
  /\ UNCHANGED <<callVars, fpVars, symVars, srvVars, calcVars>>

BFulfil ==
  /\ \E k \in DOMAIN wstate :
        WorkerFulfilled(k, WorkerValue(wargs[k][1], wargs[k][2]))
  /\ UNCHANGED <<callVars, fpVars, symVars, srvVars, calcVars>>

BReject ==
  /\ \E k \in DOMAIN wstate : WorkerRejected(k)
  /\ UNCHANGED <<callVars, fpVars, symVars, srvVars, calcVars>>

BWindowDone == WindowDone /\ UNCHANGED <<callVars, fpVars, symVars, srvVars,
                                         calcVars>>

BDelayDone == DelayDone /\ UNCHANGED <<callVars, fpVars, symVars, srvVars,
                                       calcVars>>

NextBatch == BCall \/ BFulfil \/ BReject \/ BWindowDone \/ BDelayDone

SpecBatch == Init /\ [][NextBatch]_vars

\* the 0-based number of the window item k belongs to
WindowOf(k) == (k - 1) \div batchSize

Started == {k \in DOMAIN wstate : wstate[k] # "idle"}

Running == {k \in DOMAIN wstate : wstate[k] = "running"}

\* C1: when batchProcess returns, results has the length of items and
\* results[k] is the value the worker produced for items[k], called with the
\* 0-based index of items[k], whatever the order in which the workers of a
\* window settled.
C1_ResultsPositional ==
  bpc = "returned" =>
    /\ Len(results) = Len(items)
    /\ \A k \in 1 .. Len(items) : results[k] = WorkerValue(items[k], k - 1)

\* a run of two full windows has returned, the workers of its last window
\* having settled in the reverse of their order in the list
C1_Witness ==
  /\ bpc = "returned"
  /\ Len(items) = 4
  /\ batchSize = 2
  /\ items[3] # items[4]
  /\ doneOrder = <<4, 3>>

\* C2: the workers started so far are those of the first windows of
\* batchSize consecutive items (the last one may be smaller); a worker of a
\* window is started only when every worker of every earlier window has
\* settled; so never more than batchSize workers are in flight.
C2_WindowBarrier ==
  /\ \E w \in 0 .. Len(items) :
        Started = 1 .. Min(w * batchSize, Len(items))
  /\ \A j \in Started : \A k \in DOMAIN wstate :
        WindowOf(k) < WindowOf(j) => wstate[k] = "fulfilled"
  /\ Cardinality(Running) <= batchSize

\* a full second window is in flight
C2_Witness ==
  /\ batchSize = 2
  /\ Running = {3, 4}
  /\ wstate[1] = "fulfilled" /\ wstate[2] = "fulfilled"

\* C3: exactly WindowOf(k) pauses were made before the worker of item k was
\* started (one after each earlier window, before the next window starts);
\* the pause is made only once its window has settled and while items are
\* left; a run that returns over n > 0 items has made ceil(n / batchSize) - 1
\* pauses, so none after the final window.
C3_PauseBetweenWindows ==
  /\ \A k \in Started : startPauses[k] = WindowOf(k)
  /\ bpc = "delay" =>
        /\ AllSettled(items, i, batchSize, wstate)
        /\ i + batchSize + 1 \in DOMAIN wstate
        /\ wstate[i + batchSize + 1] = "idle"
  /\ (bpc = "returned" /\ Len(items) > 0) =>
        pauses = CeilDiv(Len(items), batchSize) - 1

\* a run whose items fill its windows exactly has returned after one pause
C3_Witness ==
  /\ bpc = "returned"
  /\ Len(items) = 4
  /\ batchSize = 2
  /\ pauses = 1

----------------------------------------------------------------------------
(* SpecCall: up to MaxCalls calls of callTushareAPI, one after the other,  *)
(* each answered in any way the provider can answer.                       *)

CCall == (\E api \in ApiNames : ClientCall(api)) /\ UNCHANGED <<batchVars, fpVars, symVars, srvVars,
                                                                calcVars>>

CDelayElapsed == DelayElapsed /\ UNCHANGED <<batchVars, fpVars, symVars, srvVars,
                                             calcVars>>

CPostResolved == (\E r \in Responses : PostResolved(r)) /\ UNCHANGED <<batchVars, fpVars, symVars, srvVars,
                                                                       calcVars>>

CPostRejected == PostRejected /\ UNCHANGED <<batchVars, fpVars, symVars, srvVars,
                                             calcVars>>

NextCall == CCall \/ CDelayElapsed \/ CPostResolved \/ CPostRejected

SpecCall == Init /\ [][NextCall]_vars

\* C5: a call first waits the per-call delay and then issues exactly one
\* request; it throws, having issued that one request, when the request
\* fails or is answered with a non-zero code, and otherwise returns the
\* data of the response; over all calls there is one request per call that
\* got past its delay, so none is repeated.
C5_OneRequestNoRetry ==
  /\ crequests <= 1
  /\ cpc \in {"idle", "delay"} => crequests = 0 /\ cwaited = 0
  /\ cpc \in {"post", "returned", "threw"} =>
        crequests = 1 /\ cwaited = DelayMs
  /\ cpc = "returned" <=>
        cresp.settled /\ cresp.ok /\ cresp.code = 0
  /\ cpc = "returned" => cresult = cresp.data
  /\ cpc = "threw" <=>
        cresp.settled /\ (~cresp.ok \/ cresp.code # 0)
  /\ cpc = "threw" =>
        cresult = IF cresp.ok THEN ErrorMessage(cresp.msg) ELSE RequestFailed.msg
  /\ ctotal = ccalls - (IF cpc = "delay" THEN 1 ELSE 0)

\* a call answered with a non-zero code has thrown after its only request,
\* following an earlier call that failed as well
C5_Witness ==
  /\ ccalls = 2
  /\ ctotal = 2
  /\ cpc = "threw"
  /\ cresp.ok /\ cresp.code = 40203
  /\ cresult = "rate limit"

----------------------------------------------------------------------------
(* SpecPortfolio: getFundPortfolio on every disclosure of up to MaxRows    *)
(* rows over the reporting periods below, on several days.                 *)

ReportPeriods == {20230331, 20230630, 20230930, 20231231, 20240331}

Todays == {20230101, 20230401, 20230701, 20240101, 20240401}

FieldLists == {<<"end_date", "symbol">>, <<"symbol", "end_date">>, <<"symbol">>}

\* row k of a disclosure with the given periods: its symbol is its number
DisclosureRow(fields, periods, k) ==
  [f \in DOMAIN fields |-> IF fields[f] = "end_date" THEN periods[k] ELSE k]

Disclosures ==
  {[fields |-> fields,
    items |-> [k \in DOMAIN periods |-> DisclosureRow(fields, periods, k)]] :
     fields \in FieldLists,
     periods \in UNION {[1 .. n -> ReportPeriods] : n \in 0 .. MaxRows}}

PortfolioResponses ==
  {Threw, Null, [fields |-> <<"end_date", "symbol">>]} \cup Disclosures

\* getFundPortfolio is called: callTushareAPI settles with resp on day today
FpCall ==
  /\ fpPc = "idle"
  /\ \E resp \in PortfolioResponses, today \in Todays :
        /\ fpResp' = resp
        /\ fpToday' = today
  /\ fpPc' = "called"
  /\ UNCHANGED <<fpOut, batchVars, callVars, symVars, srvVars, calcVars>>

\* the rest of getFundPortfolio, which has no further await
FpReturn ==
  /\ fpPc = "called"
  /\ fpOut' = GetFundPortfolio(fpResp, fpToday)
  /\ fpPc' = "returned"
  /\ UNCHANGED <<fpResp, fpToday, batchVars, callVars, symVars, srvVars,
                 calcVars>>

NextPortfolio == FpCall \/ FpReturn

SpecPortfolio == Init /\ [][NextPortfolio]_vars

\* the disclosure has rows and an end_date column
HasPeriods(resp) ==
  /\ resp # Threw /\ resp # Null /\ "items" \in DOMAIN resp
  /\ Len(resp.items) > 0
  /\ IndexOf(resp.fields, "end_date") >= 0

\* the reporting period of a row: its end_date, 0 when the table has no
\* such column
PeriodOf(fields, row) ==
  IF IndexOf(fields, "end_date") >= 0
  THEN At(row, IndexOf(fields, "end_date")) ELSE 0

PeriodsIn(resp) == {PeriodOf(resp.fields, resp.items[k]) : k \in DOMAIN resp.items}

\* C7: for a disclosure with reporting periods, the resolver returns rows
\* exactly when some period is not after today, the as-of date; the period of
\* the rows returned is then not after today, and it is the latest period
\* not after today that ends in 0630 or 1231 when there is one, and the
\* latest period not after today otherwise.
C7_SelectedPeriod ==
  (fpPc = "returned" /\ HasPeriods(fpResp)) =>
    LET past == {d \in PeriodsIn(fpResp) : d <= fpToday}
        full == {d \in past : d % 10000 \in {630, 1231}}
    IN  /\ fpOut = Null <=> past = {}
        /\ fpOut # Null =>
              /\ Len(fpOut.items) > 0
              /\ \A d \in PeriodsIn(fpOut) :
                    /\ d <= fpToday
                    /\ d \in past
                    /\ \A e \in (IF full # {} THEN full ELSE past) : e <= d
                    /\ full # {} => d \in full

\* the periods 20230331, 20230630 and 20231231 on 20240101 gave 20231231
C7_Witness ==
  /\ fpPc = "returned"
  /\ HasPeriods(fpResp)
  /\ PeriodsIn(fpResp) = {20230331, 20230630, 20231231}
  /\ fpToday = 20240101
  /\ fpOut # Null
  /\ PeriodsIn(fpOut) = {20231231}

\* C8: a non-empty result keeps the fields of the disclosure, and its rows
\* are, in their order, exactly the rows of the disclosure that carry one
\* reporting period: every row of that period, and no row of another.
C8_OnePeriodAllRows ==
  (fpPc = "returned" /\ fpOut # Null) =>
    /\ fpResp # Threw /\ fpResp # Null
    /\ fpOut.fields = fpResp.fields
    /\ Len(fpOut.items) > 0
    /\ \E d \in PeriodsIn(fpResp) :
          LET Carries(row) == PeriodOf(fpResp.fields, row) = d
          IN  fpOut.items = SelectSeq(fpResp.items, Carries)

\* of three rows over two periods, the two rows of the selected period are
\* returned and the row between them is not
C8_Witness ==
  /\ fpPc = "returned"
  /\ HasPeriods(fpResp)
  /\ Len(fpResp.items) = 3
  /\ fpOut # Null
  /\ Len(fpOut.items) = 2
  /\ fpOut.items = <<fpResp.items[1], fpResp.items[3]>>
  /\ PeriodOf(fpResp.fields, fpResp.items[2]) > PeriodOf(fpResp.fields, fpResp.items[1])

----------------------------------------------------------------------------
(* SpecSymbol: the conversion of every non-empty symbol of up to MaxSymLen *)
(* characters over the alphabet below (the symbols reaching the conversion *)
(* are non-empty: .filter(s => s)).                                        *)

SymbolChars == {"0", "3", "6", "9", ".", "a"}

RawSymbols == UNION {[1 .. n -> SymbolChars] : n \in 1 .. MaxSymLen}

\* a holdings row carries the symbol
SymGive ==
  /\ symPc = "idle"
  /\ symRaw' \in RawSymbols
  /\ symPc' = "given"
  /\ UNCHANGED <<symOut, batchVars, callVars, fpVars, srvVars, calcVars>>

\* symbols.map(symbol => ...) reaches it
SymConvert ==
  /\ symPc = "given"
  /\ symOut' = ConvertSymbol(symRaw)
  /\ symPc' = "converted"
  /\ UNCHANGED <<symRaw, batchVars, callVars, fpVars, srvVars, calcVars>>

NextSymbol == SymGive \/ SymConvert

SpecSymbol == Init /\ [][NextSymbol]_vars

\* the last n characters of str
Suffix(str, n) == SubSeq(str, Len(str) - n + 1, Len(str))

\* C10: a symbol that contains "." is returned unchanged; any other symbol
\* is returned as its characters, left-padded with "0" to 6 characters,
\* followed by .SH when its integer value is in 600000..699999 and by .SZ in
\* every other case; so every code returned contains ".", and converting it
\* again gives it back.
C10_SymbolConversion ==
  symPc = "converted" =>
    /\ IncludesDot(symRaw) => symOut = symRaw
    /\ ~IncludesDot(symRaw) =>
          LET stem == SubSeq(symOut, 1, Len(symOut) - 3) IN
          /\ Len(symOut) = 3 + (IF Len(symRaw) < 6 THEN 6 ELSE Len(symRaw))
          /\ Suffix(symOut, 3) =
                (IF ParseInt(symRaw) \in 600000 .. 699999 THEN SH ELSE SZ)
          /\ Suffix(stem, Len(symRaw)) = symRaw
          /\ \A k \in 1 .. (Len(stem) - Len(symRaw)) : stem[k] = "0"
    /\ IncludesDot(symOut)
    /\ ConvertSymbol(symOut) = symOut

\* 690000 is outside the first Shanghai range and inside the second
C10_Witness ==
  /\ symPc = "converted"
  /\ symRaw = <<"6", "9", "0", "0", "0", "0">>
  /\ symOut = <<"6", "9", "0", "0", "0", "0", ".", "S", "H">>

----------------------------------------------------------------------------
(* SpecServer: one request, to /api/backtest-etf or to /api/backtest, for  *)
(* up to MaxStocks instruments, during which up to MaxFailures provider    *)
(* calls fail, the calls in flight settling in any order.                  *)

NextServer ==
  \/ EtfRequest \/ EtfPortfolioSettles \/ EtfPriceSettles \/ EtfFactorSettles
  \/ SrvWindowDone \/ SrvDelayDone \/ EtfPricesDone \/ EtfFactorsDone
  \/ EtfFundSettles \/ InfoSettles \/ InfoDone
  \/ CustomRequest \/ CustomDataSettles \/ CustomFundSettles \/ CustomDataDone

SpecServer == Init /\ [][NextServer]_vars

\* the first / the second batchProcess of /api/backtest-etf has been left
PricesLeft == hkind = "etf" /\ hpc \in {"factors", "fund", "info", "done"}

FactorsLeft == hkind = "etf" /\ hpc \in {"fund", "info", "done"}

\* the provider call api for instrument k failed
CallFailed(k, api) == <<k, api>> \in failed

\* what the getter makes of the provider's data for instrument k
GetterData(api, k) == GetterReturns(api, ProviderData(api, k))

\* C4, as stated: in the ETF backtest a provider failure while fetching the
\* price series or the fundamentals of one instrument gives that instrument
\* the no-data result (data = null, resp. dividendYield 0 and roce absent),
\* and the batch still returns one result per instrument.
C4_NoDataResult ==
  /\ PricesLeft =>
       /\ Len(stocksData) = Len(hcodes)
       /\ \A k \in DOMAIN stocksData :
            CallFailed(k, "daily") => stocksData[k].data = Null
  /\ FactorsLeft =>
       /\ Len(stocksFactors) = Len(hcodes)
       /\ \A k \in DOMAIN stocksFactors :
            (\E api \in FactorCalls : CallFailed(k, api)) =>
              /\ stocksFactors[k].dividendYield = 0
              /\ stocksFactors[k].roce = NullCell

\* C4, amended: no provider failure aborts a batch of the ETF backtest, and
\* each batch returns one result per instrument, in order.  A failed price
\* call gives its instrument data = null.  A failed daily_basic call gives
\* its instrument dividendYield 0 and no marketCap; a failed income or
\* balancesheet call gives it no roce; every factor whose calls succeeded,
\* of that and of every other instrument, is computed from the data.
C4_FailureIsolation ==
  /\ hkind = "etf" => bpc # "threw"
  /\ PricesLeft =>
       /\ Len(stocksData) = Len(hcodes)
       /\ \A k \in DOMAIN stocksData :
            /\ stocksData[k].code = hcodes[k]
            /\ stocksData[k].data =
                 IF CallFailed(k, "daily") THEN Null ELSE DailyDataOf(k)
  /\ FactorsLeft =>
       /\ Len(stocksFactors) = Len(hcodes)
       /\ \A k \in DOMAIN stocksFactors :
            /\ stocksFactors[k].code = hcodes[k]
            /\ stocksFactors[k].dividendYield =
                 IF CallFailed(k, "daily_basic") THEN 0
                 ELSE DividendYieldOf(GetterData("daily_basic", k))
            /\ stocksFactors[k].marketCap =
                 IF CallFailed(k, "daily_basic") THEN NullCell
                 ELSE MarketCapOf(GetterData("daily_basic", k))
            /\ stocksFactors[k].roce =
                 IF CallFailed(k, "income") \/ CallFailed(k, "balancesheet")
                 THEN NullCell
                 ELSE RoceOf(EbitOf(GetterData("income", k)),
                             TotalAssetsOf(GetterData("balancesheet", k)),
                             CurrentLiabOf(GetterData("balancesheet", k)))

\* The request was answered with success after the price call and the income
\* call of the first instrument failed, in the first window of both batches:
\* the instrument has no prices and no roce but its dividend yield, and the
\* instruments of the later windows have their prices and their roce.
C4_Witness ==
  /\ hkind = "etf"
  /\ responses = <<200>>
  /\ Len(hcodes) = MaxStocks
  /\ failed = {<<1, "daily">>, <<1, "income">>}
  /\ stocksData[1].data = Null
  /\ stocksData[MaxStocks].data = DailyDataOf(MaxStocks)
  /\ stocksFactors[1].roce = NullCell
  /\ stocksFactors[1].dividendYield = 3
  /\ stocksFactors[2].roce # NullCell

\* the most provider calls the windows of batchProcess allow in flight: a
\* window of price workers with one call each, or a window of factor workers
\* with three calls each
WindowBound ==
  Max(PriceBatchSize * Cardinality(PriceCalls),
      FactorBatchSize * Cardinality(FactorCalls))

\* C6, as stated: during either backtest operation the number of provider
\* calls simultaneously in flight for one request is bounded by a constant
\* fixed by the window size and does not grow with the number of instruments.
C6_WindowBoundedFanOut == InFlight <= WindowBound

\* no holdings are resolvable: the provider call failed or gave no rows
NoHoldingsResolvable == ~HasItems(fpResp)

\* the provider gave rows, all of them of reporting periods after today
NoNonFuturePeriod ==
  /\ HasItems(fpResp)
  /\ \A k \in DOMAIN fpResp.items :
       At(fpResp.items[k], IndexOf(fpResp.fields, "end_date")) > fpToday

\* C9: when no holdings are resolvable or no non-future reporting period
\* exists, the ETF backtest answers with one failure response (404) and has
\* issued no price, fundamentals or fund-series provider call, and none is in
\* flight; when the requested instrument list is empty or missing, the custom
\* backtest answers with one failure response (400) and has issued no
\* provider call at all.
C9_InsufficientDataFails ==
  /\ (/\ hkind = "etf"
      /\ fpPc = "returned"
      /\ NoHoldingsResolvable \/ NoNonFuturePeriod)
       => /\ responses = <<404>>
          /\ hpc = "done"
          /\ InFlight = 0
          /\ \A a \in ApiNames \ {"fund_portfolio"} : issued[a] = 0
  /\ (hkind = "custom" /\ Len(hcodes) = 0)
       => /\ responses = <<400>>
          /\ hpc = "done"
          /\ InFlight = 0
          /\ \A a \in ApiNames : issued[a] = 0

\* The ETF backtest has answered 404 for a fund whose disclosed periods all
\* lie after today.
C9_Witness ==
  /\ hkind = "etf"
  /\ fpPc = "returned"
  /\ NoNonFuturePeriod
  /\ responses = <<404>>

----------------------------------------------------------------------------
(* SpecFactors: the try block of the factor worker applied to what its     *)
(* three getters may return: null, a table without rows, or a table of one *)
(* row whose cells are null, 0 or a number.                                *)

ProfitCells == {NullCell, <<0>>, <<100>>, <<-50>>}

AssetCells == {NullCell, <<0>>, <<500>>, <<1000>>}

LiabCells == {NullCell, <<0>>, <<200>>, <<1000>>, <<1200>>}

EquityCells == {NullCell, <<0>>, <<500>>, <<600>>, <<-100>>}

IncomeFields == <<"end_date", "ebit", "operate_profit", "total_profit">>

BalanceFields == <<"end_date", "total_assets", "total_cur_liab",
                   "total_hldr_eqy_exc_min_int">>

DailyBasicFields == <<"trade_date", "dv_ratio", "dv_ttm", "total_mv">>

\* what getIncomeStatement may return
IncomeReturns ==
  {Null, [fields |-> IncomeFields, items |-> <<>>]}
    \cup {[fields |-> IncomeFields, items |-> <<<<<<20230930>>, e, o, t>>>>] :
            e \in ProfitCells, o \in {NullCell, <<50>>}, t \in {NullCell, <<40>>}}

\* what getBalanceSheet may return
BalanceReturns ==
  {Null}
    \cup {[fields |-> BalanceFields, items |-> <<<<<<20230930>>, a, l, q>>>>] :
            a \in AssetCells, l \in LiabCells, q \in EquityCells}

\* what getDailyBasic may return
DailyBasicReturns ==
  {Null}
    \cup {[fields |-> DailyBasicFields, items |-> <<<<<<20240103>>, r, t, m>>>>] :
            r \in {NullCell, <<0>>, <<3>>}, t \in {NullCell, <<4>>},
            m \in {NullCell, <<50000>>}}

\* the three getters of a factor worker have returned
FxGive ==
  /\ calcPc = "idle"
  /\ \E d \in DailyBasicReturns, n \in IncomeReturns, b \in BalanceReturns :
       calcIn' = [fn |-> "factors", dailyBasicInfo |-> d, incomeData |-> n,
                  balanceData |-> b]
  /\ calcPc' = "given"
  /\ UNCHANGED <<calcOut, batchVars, callVars, fpVars, symVars, srvVars>>

\* the worker returns its factors
FxReturn ==
  /\ calcPc = "given"
  /\ calcIn.fn = "factors"
  /\ calcOut' = FactorWorkerReturns(SH, calcIn.dailyBasicInfo,
                                    calcIn.incomeData, calcIn.balanceData)
  /\ calcPc' = "returned"
  /\ UNCHANGED <<calcIn, batchVars, callVars, fpVars, symVars, srvVars>>

NextFactors == FxGive \/ FxReturn

SpecFactors == Init /\ [][NextFactors]_vars

\* a factor worker has returned in SpecFactors
FactorsReturned == calcPc = "returned" /\ calcIn.fn = "factors"

\* the raw value of a column of the first row of a getter's table (null
\* when the getter returned no row)
RawCell(data, name) == IF HasItems(data) THEN Cell(data, name) ELSE NullCell

\* C11: ROCE is present only when EBIT, total assets and current liabilities
\* are there and capital employed (total assets minus current liabilities)
\* is > 0, and then ROCE = EBIT / capital employed * 100; when capital
\* employed is <= 0 or one of the three is missing, ROCE is absent (null);
\* a present ROCE is never 0.
C11_RocePresence ==
  FactorsReturned =>
    LET ebit == EbitOf(calcIn.incomeData)
        totalAssets == TotalAssetsOf(calcIn.balanceData)
        currentLiab == CurrentLiabOf(calcIn.balanceData)
        capitalEmployed == Num(totalAssets) - Num(currentLiab)
        roce == calcOut.roce
    IN  /\ roce # NullCell =>
             /\ ebit # NullCell /\ totalAssets # NullCell
             /\ currentLiab # NullCell
             /\ capitalEmployed > 0
             /\ roce[2] > 0
             /\ roce[1] * capitalEmployed = Num(ebit) * 100 * roce[2]
             /\ roce[1] # 0
        /\ (\/ capitalEmployed <= 0
            \/ NullCell \in {ebit, totalAssets, currentLiab}) => roce = NullCell

\* EBIT 100, total assets 1000, current liabilities 200: ROCE is 12.5 (25/2)
C11_Witness ==
  /\ FactorsReturned
  /\ RawCell(calcIn.incomeData, "ebit") = <<100>>
  /\ RawCell(calcIn.balanceData, "total_assets") = <<1000>>
  /\ RawCell(calcIn.balanceData, "total_cur_liab") = <<200>>
  /\ calcOut.roce # NullCell
  /\ calcOut.roce[1] * 2 = 25 * calcOut.roce[2]

\* C12, as stated: when current liabilities is absent or zero (and the
\* equity is there), total assets minus total shareholder equity takes its
\* place, so that capital employed equals the equity and ROCE is EBIT /
\* equity * 100 when the equity is > 0 and absent when it is not; when
\* current liabilities is present and non-zero the equity is not used.
C12_EquityFallback ==
  FactorsReturned /\ HasItems(calcIn.balanceData) =>
    LET ebit == EbitOf(calcIn.incomeData)
        totalAssets == RawCell(calcIn.balanceData, "total_assets")
        liab == RawCell(calcIn.balanceData, "total_cur_liab")
        equity == RawCell(calcIn.balanceData, "total_hldr_eqy_exc_min_int")
        roce == calcOut.roce
    IN  /\ (/\ ~Truthy(liab) /\ Truthy(equity)
            /\ Truthy(ebit) /\ Truthy(totalAssets)) =>
             IF Num(equity) > 0
             THEN /\ roce # NullCell
                  /\ roce[1] * Num(equity) = Num(ebit) * 100 * roce[2]
             ELSE roce = NullCell
        /\ Truthy(liab) => roce = RoceOf(ebit, totalAssets, liab)

----------------------------------------------------------------------------
(* SpecWeights: calculateDualFactorWeights applied to any list of up to    *)
(* MaxFactorRecords factor records of distinct codes, as the factor batch  *)
(* returns them for uniqueStockCodes.                                      *)

\* dividendYield values: 0 (none), 3, 4
YieldValues == {0, 3, 4}

\* roce values: absent, 10, 12.5, -5
RoceValues == {NullCell, <<1000, 100>>, <<10000, 800>>, <<-500, 100>>}

\* the code of the k-th record
CodeOf(k) == ConvertSymbol(HoldingSymbol(k))

FactorLists ==
  UNION {[1 .. n -> YieldValues \X RoceValues] : n \in 0 .. MaxFactorRecords}

WGive ==
  /\ calcPc = "idle"
  /\ \E list \in FactorLists :
       calcIn' = [fn |-> "weights",
                  stocksFactors |->
                    [k \in DOMAIN list |->
                       [code |-> CodeOf(k), dividendYield |-> list[k][1],
                        roce |-> list[k][2],
                        marketCap |-> NullCell]]]
  /\ calcPc' = "given"
  /\ UNCHANGED <<calcOut, batchVars, callVars, fpVars, symVars, srvVars>>

WReturn ==
  /\ calcPc = "given"
  /\ calcIn.fn = "weights"
  /\ calcOut' = CalculateDualFactorWeights(calcIn.stocksFactors)
  /\ calcPc' = "returned"
  /\ UNCHANGED <<calcIn, batchVars, callVars, fpVars, symVars, srvVars>>

NextWeights == WGive \/ WReturn

SpecWeights == Init /\ [][NextWeights]_vars

WeightsReturned == calcPc = "returned" /\ calcIn.fn = "weights"

\* the codes of the records of the list
CodesIn(list) == {list[k].code : k \in DOMAIN list}

\* the codes of the records with a present ROCE
ValidCodes(list) == {list[k].code : k \in {j \in DOMAIN list : list[j].roce # NullCell}}

\* the sum of the values of a function with a finite domain
RECURSIVE SumOver(_)
SumOver(f) ==
  IF DOMAIN f = {} THEN Zero
  ELSE LET c == CHOOSE x \in DOMAIN f : TRUE
       IN  RAdd(f[c], SumOver([x \in DOMAIN f \ {c} |-> f[x]]))

\* C13: when no input record has a present ROCE, every instrument of the
\* input list gets the weight 1/N, N the length of the list, so the weights
\* sum to 1.
C13_EqualWeightsWithoutRoce ==
  (WeightsReturned /\ ValidCodes(calcIn.stocksFactors) = {}) =>
    /\ DOMAIN calcOut = CodesIn(calcIn.stocksFactors)
    /\ \A c \in DOMAIN calcOut :
         calcOut[c] = Norm(1, Len(calcIn.stocksFactors))
    /\ Len(calcIn.stocksFactors) > 0 => SumOver(calcOut) = One

\* MaxFactorRecords instruments without ROCE got their equal weights
C13_Witness ==
  /\ WeightsReturned
  /\ Len(calcIn.stocksFactors) = MaxFactorRecords
  /\ ValidCodes(calcIn.stocksFactors) = {}
  /\ \E k \in DOMAIN calcIn.stocksFactors :
       calcIn.stocksFactors[k].dividendYield > 0
  /\ \A c \in CodesIn(calcIn.stocksFactors) :
       calcOut[c] = Norm(1, MaxFactorRecords)

\* the records of the list with a present ROCE
ValidRecords(list) == {list[k] : k \in {j \in DOMAIN list : list[j].roce # NullCell}}

\* C14: when at least one input record has a present ROCE, the keys of the
\* weights are exactly the instruments with a present ROCE, each weight
\* lies in [0, 1] and the weights sum to 1; when all instruments of that
\* subset have the same ROCE and the same dividend yield (every composite
\* score is zero) each of them gets 1/|subset|.
C14_WeightsOverValidSubset ==
  (WeightsReturned /\ ValidCodes(calcIn.stocksFactors) # {}) =>
    LET valid == ValidRecords(calcIn.stocksFactors) IN
    /\ DOMAIN calcOut = ValidCodes(calcIn.stocksFactors)
    /\ \A c \in DOMAIN calcOut :
         /\ IsFinite(calcOut[c])
         /\ ~RLess(calcOut[c], Zero)
         /\ ~RLess(One, calcOut[c])
    /\ SumOver(calcOut) = One
    /\ (\A s, t \in valid :
          /\ ToNumber(s.roce) = ToNumber(t.roce)
          /\ s.dividendYield = t.dividendYield) =>
         \A c \in DOMAIN calcOut : calcOut[c] = Norm(1, Cardinality(valid))

\* an instrument with ROCE 10 and dividend yield 0 next to one with absent
\* ROCE: the first has the weight 1, the second has none
C14_Witness ==
  /\ WeightsReturned
  /\ Len(calcIn.stocksFactors) = 2
  /\ calcIn.stocksFactors[1].roce = NullCell
  /\ calcIn.stocksFactors[1].dividendYield = 0
  /\ ToNumber(calcIn.stocksFactors[2].roce) = Norm(10, 1)
  /\ calcIn.stocksFactors[2].dividendYield = 0
  /\ DOMAIN calcOut = {CodeOf(2)}
  /\ calcOut[CodeOf(2)] = One

----------------------------------------------------------------------------
(* SpecNetValue: calculatePortfolioNetValue applied to the price series of *)
(* up to MaxSeries instruments, each null or the rows of up to MaxDays of   *)
(* three days with positive closes, latest day first as the provider gives *)
(* them, and to weights of 0, 0.5 or 0.3 for each instrument.              *)

TradeDates == {20240102, 20240103, 20240104}

\* the closes of an instrument over the days: up and flat, or down and up
ClosePaths ==
  {[d \in TradeDates |-> IF d = 20240102 THEN <<10>> ELSE <<20>>],
   [d \in TradeDates |-> IF d = 20240103 THEN <<10>> ELSE <<20>>]}

WeightValues == {Zero, Norm(1, 2), Norm(3, 10)}

PriceFields == <<"trade_date", "close">>

\* the rows of the days of a set, latest first, with the closes given
RECURSIVE PriceRows(_, _)
PriceRows(days, close) ==
  IF days = {} THEN <<>>
  ELSE <<<<<<SetMax(days)>>, close[SetMax(days)]>>>>
         \o PriceRows(days \ {SetMax(days)}, close)

\* the price series whose closes follow one of the paths: null, or the rows
\* of up to MaxDays of the days
PriceSeries(paths) ==
  {Null}
    \cup {[fields |-> PriceFields, items |-> PriceRows(days, close)] :
            days \in {S \in SUBSET TradeDates : Cardinality(S) <= MaxDays},
            close \in paths}

StockLists(paths) ==
  UNION {[1 .. n -> PriceSeries(paths)] : n \in 0 .. MaxSeries}

NvGive ==
  /\ calcPc = "idle"
  /\ \E series \in StockLists(ClosePaths) :
     \E w \in [DOMAIN series -> WeightValues] :
       calcIn' = [fn |-> "netValue",
                  stocksData |-> [k \in DOMAIN series |->
                                    [code |-> CodeOf(k), data |-> series[k]]],
                  weights |-> [c \in {CodeOf(k) : k \in DOMAIN series} |->
                                 w[CHOOSE k \in DOMAIN series : CodeOf(k) = c]]]
  /\ calcPc' = "given"
  /\ UNCHANGED <<calcOut, batchVars, callVars, fpVars, symVars, srvVars>>

NvReturn ==
  /\ calcPc = "given"
  /\ calcIn.fn = "netValue"
  /\ calcOut' = CalculatePortfolioNetValue(calcIn.stocksData, calcIn.weights)
  /\ calcPc' = "returned"
  /\ UNCHANGED <<calcIn, batchVars, callVars, fpVars, symVars, srvVars>>

NextNetValue == NvGive \/ NvReturn

SpecNetValue == Init /\ [][NextNetValue]_vars

NetValueReturned == calcPc = "returned" /\ calcIn.fn = "netValue"

SetMin(S) == CHOOSE x \in S : \A y \in S : x <= y

\* instrument k of the input has data and a non-zero weight
Contributes(k) ==
  /\ calcIn.stocksData[k].data # Null
  /\ Len(calcIn.stocksData[k].data.items) > 0
  /\ calcIn.weights[calcIn.stocksData[k].code] # Zero

\* the days of the series of instrument k, and its close on day d
DaysOf(k) ==
  {row[1][1] : row \in Range(calcIn.stocksData[k].data.items)}

CloseOn(k, d) ==
  (CHOOSE row \in Range(calcIn.stocksData[k].data.items) : row[1][1] = d)[2][1]

\* all days on which a contributing instrument has data
DaysCovered ==
  UNION {DaysOf(k) : k \in {j \in DOMAIN calcIn.stocksData : Contributes(j)}}

\* the sum, over the contributing instruments with data on day d, of
\* close(d) / close(t0) * weight, t0 the earliest day of the instrument
WeightedSum(d) ==
  SumOver([k \in {j \in DOMAIN calcIn.stocksData :
                    Contributes(j) /\ d \in DaysOf(j)} |->
             RMul(Norm(CloseOn(k, d), CloseOn(k, SetMin(DaysOf(k)))),
                  calcIn.weights[calcIn.stocksData[k].code])])

\* C15: calculatePortfolioNetValue returns one point per day on which an
\* instrument with non-zero weight and data has data, in strictly ascending
\* order of the days; the value on day d is the sum over those instruments
\* having data on d of close(d) / close(t0) * weight, divided by the same
\* sum on the earliest day when that is positive, so the first point is 1.
C15_NetValueSeries ==
  NetValueReturned =>
    /\ Len(calcOut) = Cardinality(DaysCovered)
    /\ {calcOut[j].date[1] : j \in DOMAIN calcOut} = DaysCovered
    /\ \A j \in 1 .. Len(calcOut) - 1 :
         calcOut[j].date[1] < calcOut[j + 1].date[1]
    /\ \A j \in DOMAIN calcOut :
         calcOut[j].netValue =
           IF RLess(Zero, WeightedSum(SetMin(DaysCovered)))
           THEN RDiv(WeightedSum(calcOut[j].date[1]),
                     WeightedSum(SetMin(DaysCovered)))
           ELSE WeightedSum(calcOut[j].date[1])
    /\ Len(calcOut) > 0 => calcOut[1].netValue = One

\* two instruments of weights 0.5 and 0.3 that both start on the first day:
\* the sum of that day is 0.8 and the first point 1.0, a later point is not
C15_Witness ==
  /\ NetValueReturned
  /\ Len(calcIn.stocksData) = 2
  /\ Contributes(1) /\ Contributes(2)
  /\ calcIn.weights[CodeOf(1)] = Norm(1, 2)
  /\ calcIn.weights[CodeOf(2)] = Norm(3, 10)
  /\ SetMin(DaysOf(1)) = SetMin(DaysOf(2))
  /\ WeightedSum(SetMin(DaysCovered)) = Norm(8, 10)
  /\ Len(calcOut) >= 2
  /\ calcOut[1].netValue = One
  /\ calcOut[2].netValue # One

----------------------------------------------------------------------------
(* SpecDegenerate: the three computations on degenerate data: price series *)
(* whose first close is 0 or null, fund series whose rows lack the         *)
(* net-asset value, the close or both, and the factor lists of SpecWeights *)
(* (equal factors, zero scores).                                           *)

\* closes of an instrument whose first close is 0, or null
DegeneratePaths ==
  {[d \in TradeDates |-> IF d = 20240102 THEN <<0>> ELSE <<20>>],
   [d \in TradeDates |-> IF d = 20240102 THEN NullCell ELSE <<20>>]}

DgGiveNetValue ==
  /\ calcPc = "idle"
  /\ \E series \in StockLists(ClosePaths \cup DegeneratePaths) :
     \E w \in [DOMAIN series -> WeightValues] :
       calcIn' = [fn |-> "netValue",
                  stocksData |-> [k \in DOMAIN series |->
                                    [code |-> CodeOf(k), data |-> series[k]]],
                  weights |-> [c \in {CodeOf(k) : k \in DOMAIN series} |->
                                 w[CHOOSE k \in DOMAIN series : CodeOf(k) = c]]]
  /\ calcPc' = "given"
  /\ UNCHANGED <<calcOut, batchVars, callVars, fpVars, symVars, srvVars>>

\* the columns of fund_daily data besides trade_date
FundColumns == {<<>>, <<"close">>, <<"nav">>, <<"nav", "close">>}

FundCells == {NullCell, <<0>>, <<2>>}

\* what getFundDailyData may return: null, or up to MaxDays rows, latest first
FundSeries ==
  {Null}
    \cup UNION {{[fields |-> <<"trade_date">> \o cols,
                  items |-> [j \in 1 .. n |->
                               <<<<20240102 + n - j>>>> \o cells[j]]] :
                   cells \in [1 .. n -> [1 .. Len(cols) -> FundCells]]} :
                  cols \in FundColumns, n \in 0 .. MaxDays}

DgGiveEtf ==
  /\ calcPc = "idle"
  /\ \E data \in FundSeries : calcIn' = [fn |-> "etfNetValue", etfData |-> data]
  /\ calcPc' = "given"
  /\ UNCHANGED <<calcOut, batchVars, callVars, fpVars, symVars, srvVars>>

EtfNvReturn ==
  /\ calcPc = "given"
  /\ calcIn.fn = "etfNetValue"
  /\ calcOut' = CalculateETFNetValue(calcIn.etfData)
  /\ calcPc' = "returned"
  /\ UNCHANGED <<calcIn, batchVars, callVars, fpVars, symVars, srvVars>>

NextDegenerate ==
  \/ DgGiveNetValue \/ NvReturn
  \/ DgGiveEtf \/ EtfNvReturn
  \/ WGive \/ WReturn

SpecDegenerate == Init /\ [][NextDegenerate]_vars

\* C16, as stated: every weight produced by calculateDualFactorWeights and
\* every netValue produced by calculatePortfolioNetValue and
\* calculateETFNetValue is a finite number, whatever the input (a zero
\* attribute range, a zero total score, a zero or missing first close, a
\* fund row lacking both net-asset value and close).
C16_FiniteOutput ==
  calcPc = "returned" =>
    IF calcIn.fn = "weights"
    THEN \A c \in DOMAIN calcOut : IsFinite(calcOut[c])
    ELSE \A j \in DOMAIN calcOut : IsFinite(calcOut[j].netValue)

----------------------------------------------------------------------------
(* SpecServerLive: SpecServer where every provider call in flight settles  *)
(* and every continuation that can run is run, that is, where the handler  *)
(* never stops while one of its steps other than the arrival of a request  *)
(* is possible.                                                            *)

HandlerStep ==
  \/ EtfPortfolioSettles \/ EtfPriceSettles \/ EtfFactorSettles
  \/ SrvWindowDone \/ SrvDelayDone \/ EtfPricesDone \/ EtfFactorsDone
  \/ EtfFundSettles \/ InfoSettles \/ InfoDone
  \/ CustomDataSettles \/ CustomFundSettles \/ CustomDataDone

SpecServerLive == Init /\ [][NextServer]_vars /\ WF_vars(HandlerStep)

\* C17: every accepted request, ETF or custom, eventually has sent exactly
\* one response and never more than one: 200, the reported failures 404 and
\* 400, or 500; a failure of the call for the fund's own series is answered
\* with 500.
C17_ExactlyOneResponse ==
  /\ [](Len(responses) <= 1)
  /\ [](\A j \in DOMAIN responses : responses[j] \in {200, 400, 404, 500})
  /\ [](<<0, "fund_daily">> \in failed => responses = <<500>>)
  /\ [](hkind # "none" => <>(Len(responses) = 1))

\* A custom backtest answered 500 when the call for the fund's series
\* failed; the calls for the instruments have settled since, and no second
\* response was sent.
C17_Witness ==
  /\ hkind = "custom"
  /\ failed = {<<0, "fund_daily">>}
  /\ Len(hcodes) = MaxStocks
  /\ InFlight = 0
  /\ responses = <<500>>

====
